---- MODULE Spec2Model ----
(***************************************************************************)
(* Verification model of the termcharts rendering engine                   *)
(* (pkg/termcharts: bar.go, line.go, sparkline.go, style.go; internal      *)
(* scaling helpers).                                                       *)
(*                                                                         *)
(* Conventions                                                             *)
(*  - A Go string is a sequence of runes (code points); "\n" is rune 10,   *)
(*    the empty string is << >>.                                           *)
(*  - A float64 is a record [k, n]: k = "num" with integer value n, or     *)
(*    k = "NaN", "+Inf", "-Inf".  Arithmetic on finite values is exact     *)
(*    rational arithmetic; int(x) is truncation toward zero.               *)
(*  - The terminal probe (internal.SupportsUnicode / SupportsColor) is the *)
(*    variable env.                                                        *)
(***************************************************************************)
EXTENDS Integers, Sequences, FiniteSets, TLC

VARIABLES chart, opts, env, pc, result, grid, colors, dotGrid, colorGrid, seriesIdx,
          firstCall, otherChart, themeVar, linePoints, seg

vars == <<chart, opts, env, pc, result, grid, colors, dotGrid, colorGrid, seriesIdx,
          firstCall, otherChart, themeVar, linePoints, seg>>

(***************************************************************************)
(* Bounds of the explored input space                                      *)
(***************************************************************************)
MaxLen == 2
MaxVal == 1
MaxBarLen == 2
MaxBarVal == 3
MaxSeries == 2
MaxLineLen == 3
MaxLineVal == 2
MaxMultiVal == 1
MaxCat == 2
MaxBars == 2
MaxPieLen == 2
MaxPieVal == 2
MaxSparkLen == 3
MaxSparkVal == 2
MaxNormLen == 3
MaxNormVal == 2
MaxSegX == 4
MaxSegY == 3

(***************************************************************************)
(* Runes and strings                                                       *)
(***************************************************************************)
NL == 10
SP == 32
barCharASCII == 35
fullBlock == 9608
brailleBase == 10240
lineHorizontal == 9472
lineVertical == 9474
lineUp == 9585
lineDown == 9586
lineDot == 8226
asciiHorizontal == 45
asciiVertical == 124
asciiUp == 47
asciiDown == 92
asciiDot == 42
legendMarker == 9679
pieChar == 42
ESC == 27

Repeat(s, n) == [i \in 1..(IF n > 0 THEN n * Len(s) ELSE 0) |-> s[((i - 1) % Len(s)) + 1]]

RECURSIVE Flatten(_)
Flatten(ss) ==
    IF Len(ss) = 0 THEN << >>
    ELSE IF Len(ss) = 1 THEN ss[1]
    ELSE LET half == Len(ss) \div 2
         IN Flatten(SubSeq(ss, 1, half)) \o Flatten(SubSeq(ss, half + 1, Len(ss)))

RECURSIVE Digits(_)
Digits(n) == IF n < 10 THEN <<48 + n>> ELSE Digits(n \div 10) \o <<48 + (n % 10)>>

AbsInt(value) == IF value < 0 THEN -value ELSE value

\* int(float64(a) / float64(b)) for b # 0: truncation toward zero
Trunc(a, b) ==
    IF (a >= 0) = (b > 0) THEN AbsInt(a) \div AbsInt(b) ELSE -(AbsInt(a) \div AbsInt(b))

\* fmt.Sprintf("%.1f", v) of an integral value v
FormatF1(v) == (IF v < 0 THEN <<45>> ELSE << >>) \o Digits(AbsInt(v)) \o <<46, 48>>

\* fmt.Sprintf("%-*s", w, s): s padded with spaces on the right to width w
PadRight(s, w) == s \o Repeat(<<SP>>, w - Len(s))

\* fmt.Sprintf("%*s", w, s): s padded with spaces on the left to width w
PadLeft(s, w) == Repeat(<<SP>>, w - Len(s)) \o s

(***************************************************************************)
(* float64 values                                                          *)
(***************************************************************************)
F(n) == [k |-> "num", n |-> n]
NaN == [k |-> "NaN", n |-> 0]
PosInf == [k |-> "+Inf", n |-> 0]
NegInf == [k |-> "-Inf", n |-> 0]
NonFinite == {NaN, PosInf, NegInf}

IsNaN(value) == value.k = "NaN"
IsInf(value) == value.k \in {"+Inf", "-Inf"}

\* v > w on float64: false when either side is NaN
Gt(v, w) ==
    CASE IsNaN(v) \/ IsNaN(w) -> FALSE
      [] v.k = "+Inf" -> w.k # "+Inf"
      [] v.k = "-Inf" -> FALSE
      [] w.k = "+Inf" -> FALSE
      [] w.k = "-Inf" -> TRUE
      [] OTHER -> v.n > w.n

IsValidMissesInf(value) == ~IsNaN(value)

IsValid(value) == ~IsNaN(value) /\ ~IsInf(value)

AllValid(data) == \A i \in 1..Len(data) : IsValid(data[i])

RECURSIVE MinMaxFrom(_, _, _, _)
MinMaxFrom(data, i, min, max) ==
    IF i > Len(data) THEN <<min, max>>
    ELSE MinMaxFrom(data, i + 1,
                    IF Gt(min, data[i]) THEN data[i] ELSE min,
                    IF Gt(data[i], max) THEN data[i] ELSE max)

MinMax(data) == IF Len(data) = 0 THEN <<F(0), F(0)>> ELSE MinMaxFrom(data, 2, data[1], data[1])

ClampInt(value, min, max) ==
    IF value < min THEN min ELSE IF value > max THEN max ELSE value

(***************************************************************************)
(* style.go: themes and Colorize                                           *)
(***************************************************************************)
DefaultTheme ==
    [Primary |-> "blue", Secondary |-> "green", Accent |-> "yellow", Muted |-> "gray",
     Background |-> "", Text |-> "",
     Series |-> <<"red", "blue", "yellow", "magenta", "green", "cyan">>]

colorReset == <<ESC, 91, 48, 109>>

colorMap ==
    [c \in {"black", "red", "green", "yellow", "orange", "blue", "magenta", "purple",
            "cyan", "white", "gray", "grey", "brown"} |->
        CASE c = "black" -> <<ESC, 91, 51, 48, 109>>
          [] c \in {"red", "brown"} -> <<ESC, 91, 51, 49, 109>>
          [] c = "green" -> <<ESC, 91, 51, 50, 109>>
          [] c \in {"yellow", "orange"} -> <<ESC, 91, 51, 51, 109>>
          [] c = "blue" -> <<ESC, 91, 51, 52, 109>>
          [] c \in {"magenta", "purple"} -> <<ESC, 91, 51, 53, 109>>
          [] c = "cyan" -> <<ESC, 91, 51, 54, 109>>
          [] c = "white" -> <<ESC, 91, 51, 55, 109>>
          [] OTHER -> <<ESC, 91, 57, 48, 109>>]

ColorizeNoReset(text, color, colorEnabled) ==
    IF ~colorEnabled \/ color = "" THEN text
    ELSE IF color \notin DOMAIN colorMap THEN text
    ELSE colorMap[color] \o text

Colorize(text, color, colorEnabled) ==
    IF ~colorEnabled \/ color = "" THEN text
    ELSE IF color \notin DOMAIN colorMap THEN text
    ELSE colorMap[color] \o text \o colorReset

\* index is 0-based as in the source
GetSeriesColorByCallCount(t, index) ==
    IF Len(t.Series) = 0 THEN t.Primary
    ELSE t.Series[((index + (IF firstCall.called THEN 1 ELSE 0)) % Len(t.Series)) + 1]

GetSeriesColor(t, index) ==
    IF Len(t.Series) = 0 THEN t.Primary ELSE t.Series[(index % Len(t.Series)) + 1]

\* theme := opts.Theme; nil selects the package variable DefaultTheme (themeVar)
themeOf(o) == themeVar

\* BarChart/LineChart/PieChart.isColorEnabled
isColorEnabled(o, e) == IF o.ColorEnabled # "nil" THEN o.ColorEnabled = "true" ELSE e.color

\* BarChart.shouldUseUnicode (PieChart.shouldUseUnicode is the same code)
shouldUseUnicode(o, e) ==
    IF o.Style = "ascii" THEN FALSE
    ELSE IF o.Style = "unicode" THEN TRUE
    ELSE e.unicode

titleLine(o, e) ==
    IF o.Title # << >>
    THEN (IF isColorEnabled(o, e) THEN Colorize(o.Title, themeOf(o).Text, TRUE) ELSE o.Title)
         \o <<NL>>
    ELSE << >>

(***************************************************************************)
(* bar.go: single-series bar charts                                        *)
(***************************************************************************)
RECURSIVE findMaxFrom(_, _, _)
findMaxFrom(data, i, max) ==
    IF i > Len(data) THEN max
    ELSE findMaxFrom(data, i + 1,
                     IF ~IsNaN(data[i]) /\ ~IsInf(data[i]) /\ Gt(data[i], max)
                     THEN data[i] ELSE max)

findMaxTakesMin(data) == MinMax(data)[1]

findMax(data) == IF Len(data) = 0 THEN F(0) ELSE findMaxFrom(data, 2, data[1])

RECURSIVE maxStringLengthFrom(_, _, _)
maxStringLengthFrom(strings, i, max) ==
    IF i > Len(strings) THEN max
    ELSE maxStringLengthFrom(strings, i + 1,
                             IF Len(strings[i]) > max THEN Len(strings[i]) ELSE max)

maxStringLength(strings) == maxStringLengthFrom(strings, 1, 0)

\* maxVal of renderHorizontal / renderVertical: findMax, with 0 replaced by 1
singleMaxVal(o) == LET m == findMax(o.Data).n IN IF m = 0 THEN 1 ELSE m

maxLabelWidthOf(o) ==
    IF o.ShowAxes /\ Len(o.Labels) > 0 THEN maxStringLength(o.Labels) + 1 ELSE 0

\* barWidth of renderHorizontal
horizontalBarWidth(o) ==
    LET valueWidth == IF o.ShowValues
                      THEN Len(<<SP>> \o FormatF1(singleMaxVal(o))) + 1 ELSE 0
        barWidth == o.Width - maxLabelWidthOf(o) - valueWidth - 2
    IN IF barWidth < 1 THEN 20 ELSE barWidth

barLenOfRounded(extent, val, maxVal) ==
    LET barLen == Trunc(2 * extent * val + maxVal, 2 * maxVal) IN IF barLen < 0 THEN 0 ELSE barLen

\* barLen of renderHorizontal: int(float64(barWidth) * (val / maxVal)), negatives to 0
barLenOf(extent, val, maxVal) ==
    LET barLen == Trunc(extent * val, maxVal) IN IF barLen < 0 THEN 0 ELSE barLen

renderBar(length, maxWidth, useUnicode, colorEnabled, color) ==
    LET n == IF length < maxWidth THEN length ELSE maxWidth
        glyph == IF useUnicode THEN <<fullBlock>> ELSE <<barCharASCII>>
        char == IF colorEnabled THEN Colorize(glyph, color, TRUE) ELSE glyph
    IN Flatten([i \in 1..(IF n > 0 THEN n ELSE 0) |-> char])

\* the "%-*s " label column of the horizontal renderers
labelColumn(o, e, idx, maxLabelWidth) ==
    IF o.ShowAxes
    THEN LET label == IF idx <= Len(o.Labels) THEN o.Labels[idx] ELSE << >>
             labelText == PadRight(label, maxLabelWidth) \o <<SP>>
         IN IF isColorEnabled(o, e) THEN Colorize(labelText, themeOf(o).Muted, TRUE)
            ELSE labelText
    ELSE << >>

renderHorizontal(o, e) ==
    IF ~AllValid(o.Data) THEN << >>
    ELSE LET useUnicode == shouldUseUnicode(o, e)
             colorEnabled == isColorEnabled(o, e)
             theme == themeOf(o)
             maxVal == singleMaxVal(o)
             barWidth == horizontalBarWidth(o)
             row(i) ==
                 LET val == o.Data[i].n
                     valueText == <<SP>> \o FormatF1(val)
                 IN labelColumn(o, e, i, maxLabelWidthOf(o))
                    \o renderBar(barLenOf(barWidth, val, maxVal), barWidth, useUnicode,
                                 colorEnabled, theme.Primary)
                    \o (IF o.ShowValues
                        THEN (IF colorEnabled THEN Colorize(valueText, theme.Muted, TRUE)
                              ELSE valueText)
                        ELSE << >>)
                    \o <<NL>>
         IN titleLine(o, e) \o Flatten([i \in 1..Len(o.Data) |-> row(i)])

renderVerticalBar(useUnicode, colorEnabled, color) ==
    LET char == IF useUnicode THEN <<fullBlock>> ELSE <<barCharASCII>>
    IN IF colorEnabled THEN Colorize(char, color, TRUE) ELSE char

\* barHeight of renderVertical
verticalBarHeight(o) ==
    LET h1 == IF o.Title # << >> THEN o.Height - 1 ELSE o.Height
        h2 == IF o.ShowAxes /\ Len(o.Labels) > 0 THEN h1 - 1 ELSE h1
    IN IF h2 < 3 THEN 10 ELSE h2

\* the label row under vertical bars: labels cut or padded to cellWidth
verticalLabelRow(o, e, count, cellWidth, gap) ==
    IF o.ShowAxes /\ Len(o.Labels) > 0
    THEN LET cell(i) ==
                 LET label == IF i <= Len(o.Labels)
                              THEN (IF Len(o.Labels[i]) > cellWidth
                                    THEN SubSeq(o.Labels[i], 1, cellWidth)
                                    ELSE PadRight(o.Labels[i], cellWidth))
                              ELSE Repeat(<<SP>>, cellWidth)
                 IN (IF isColorEnabled(o, e) THEN Colorize(label, themeOf(o).Muted, TRUE)
                     ELSE label)
                    \o (IF i < count THEN Repeat(<<SP>>, gap) ELSE << >>)
         IN Flatten([i \in 1..count |-> cell(i)]) \o <<NL>>
    ELSE << >>

renderVertical(o, e) ==
    IF ~AllValid(o.Data) THEN << >>
    ELSE LET useUnicode == shouldUseUnicode(o, e)
             colorEnabled == isColorEnabled(o, e)
             theme == themeOf(o)
             maxVal == singleMaxVal(o)
             barHeight == verticalBarHeight(o)
             barWidth == 3
             spacing == 1
             cell(row, i) ==
                 LET barRows == Trunc(barHeight * o.Data[i].n, maxVal)
                 IN (IF row <= barRows
                     THEN Flatten([k \in 1..barWidth |->
                                     renderVerticalBar(useUnicode, colorEnabled, theme.Primary)])
                     ELSE Repeat(<<SP>>, barWidth))
                    \o (IF i < Len(o.Data) THEN Repeat(<<SP>>, spacing) ELSE << >>)
             \* k-th emitted row is row barHeight - k + 1
             line(k) == Flatten([i \in 1..Len(o.Data) |-> cell(barHeight - k + 1, i)]) \o <<NL>>
         IN titleLine(o, e)
            \o Flatten([k \in 1..barHeight |-> line(k)])
            \o verticalLabelRow(o, e, Len(o.Data), barWidth, spacing)

(***************************************************************************)
(* bar.go: multi-series bar charts (grouped and stacked)                   *)
(***************************************************************************)
RECURSIVE numCategoriesFrom(_, _, _)
numCategoriesFrom(series, i, n) ==
    IF i > Len(series) THEN n
    ELSE numCategoriesFrom(series, i + 1,
                           IF Len(series[i].Data) > n THEN Len(series[i].Data) ELSE n)

numCategoriesOf(series) == numCategoriesFrom(series, 1, 0)

\* s.Data[cat] or 0.0 when the series has no value for the category (cat is 1-based)
valueAt(s, cat) == IF cat <= Len(s.Data) THEN s.Data[cat].n ELSE 0

RECURSIVE categorySum(_, _, _)
categorySum(series, cat, i) ==
    IF i > Len(series) THEN 0
    ELSE valueAt(series[i], cat) + categorySum(series, cat, i + 1)

RECURSIVE maxSumFrom(_, _, _)
maxSumFrom(series, cat, maxSum) ==
    IF cat > numCategoriesOf(series) THEN maxSum
    ELSE LET sum == categorySum(series, cat, 1)
         IN maxSumFrom(series, cat + 1, IF sum > maxSum THEN sum ELSE maxSum)

RECURSIVE maxIndividualFrom(_, _, _, _)
maxIndividualFrom(series, i, j, maxVal) ==
    IF i > Len(series) THEN maxVal
    ELSE IF j > Len(series[i].Data) THEN maxIndividualFrom(series, i + 1, 1, maxVal)
    ELSE LET v == series[i].Data[j]
         IN maxIndividualFrom(series, i, j + 1,
                              IF ~IsNaN(v) /\ ~IsInf(v) /\ Gt(v, F(maxVal)) THEN v.n ELSE maxVal)

calculateMaxValueStackedAsGrouped(o, series) == maxIndividualFrom(series, 1, 1, 0)

calculateMaxValue(o, series) ==
    IF o.BarMode = "stacked" THEN maxSumFrom(series, 1, 0)
    ELSE maxIndividualFrom(series, 1, 1, 0)

\* maxVal of the multi-series renderers: calculateMaxValue, with 0 replaced by 1
multiMaxVal(o) == LET m == calculateMaxValue(o, o.Series) IN IF m = 0 THEN 1 ELSE m

\* barWidth of renderHorizontalMultiSeries
multiBarWidth(o) ==
    LET barWidth == o.Width - maxLabelWidthOf(o) - 2
    IN IF barWidth < 1 THEN 20 ELSE barWidth

seriesColor(o, i) ==
    IF o.Series[i].Color # "" THEN o.Series[i].Color ELSE GetSeriesColor(themeOf(o), i - 1)

groupedBarLenPerSeriesMax(o, i, cat) ==
    LET m == findMax(o.Series[i].Data).n
    IN barLenOf(multiBarWidth(o) \div Len(o.Series), valueAt(o.Series[i], cat),
                IF m <= 0 THEN 1 ELSE m)

\* barLen of renderHorizontalGrouped for series i, category cat
groupedBarLen(o, i, cat) ==
    barLenOf(multiBarWidth(o) \div Len(o.Series), valueAt(o.Series[i], cat), multiMaxVal(o))

\* barLen of renderHorizontalStacked for series i, category cat
stackedBarLen(o, i, cat) ==
    barLenOf(multiBarWidth(o), valueAt(o.Series[i], cat), multiMaxVal(o))

renderHorizontalGrouped(o, e, numCategories, maxLabelWidth) ==
    LET bar(cat, i) ==
            renderBar(groupedBarLen(o, i, cat), multiBarWidth(o) \div Len(o.Series),
                      shouldUseUnicode(o, e), isColorEnabled(o, e), seriesColor(o, i))
        row(cat) == labelColumn(o, e, cat, maxLabelWidth)
                    \o Flatten([i \in 1..Len(o.Series) |-> bar(cat, i)]) \o <<NL>>
    IN Flatten([cat \in 1..numCategories |-> row(cat)])

renderHorizontalStacked(o, e, numCategories, maxLabelWidth) ==
    LET bar(cat, i) ==
            renderBar(stackedBarLen(o, i, cat), multiBarWidth(o),
                      shouldUseUnicode(o, e), isColorEnabled(o, e), seriesColor(o, i))
        row(cat) == labelColumn(o, e, cat, maxLabelWidth)
                    \o Flatten([i \in 1..Len(o.Series) |-> bar(cat, i)]) \o <<NL>>
    IN Flatten([cat \in 1..numCategories |-> row(cat)])

\* the legend block of the multi-series bar renderers
barLegend(o, e) ==
    IF o.ShowLegend
    THEN LET entry(i) ==
                 LET legendChar == IF shouldUseUnicode(o, e) THEN <<fullBlock>>
                                   ELSE <<barCharASCII>>
                 IN (IF isColorEnabled(o, e) THEN Colorize(legendChar, seriesColor(o, i), TRUE)
                     ELSE legendChar)
                    \o <<SP>> \o o.Series[i].Label \o <<SP, SP>>
         IN <<NL>> \o Flatten([i \in 1..Len(o.Series) |-> entry(i)]) \o <<NL>>
    ELSE << >>

renderHorizontalMultiSeries(o, e) ==
    IF \E i \in 1..Len(o.Series) : ~AllValid(o.Series[i].Data) THEN << >>
    ELSE LET numCategories == numCategoriesOf(o.Series)
             maxLabelWidth == maxLabelWidthOf(o)
         IN titleLine(o, e)
            \o (IF o.BarMode = "stacked"
                THEN renderHorizontalStacked(o, e, numCategories, maxLabelWidth)
                ELSE renderHorizontalGrouped(o, e, numCategories, maxLabelWidth))
            \o barLegend(o, e)

\* barHeight of renderVerticalMultiSeries
multiBarHeight(o) ==
    LET h1 == IF o.Title # << >> THEN o.Height - 1 ELSE o.Height
        h2 == IF o.ShowAxes /\ Len(o.Labels) > 0 THEN h1 - 1 ELSE h1
        h3 == IF o.ShowLegend THEN h2 - 2 ELSE h2
    IN IF h3 < 3 THEN 10 ELSE h3

\* barRows of renderVerticalGrouped for series i, category cat
groupedBarRows(o, i, cat) ==
    Trunc(multiBarHeight(o) * valueAt(o.Series[i], cat), multiMaxVal(o))

renderVerticalGrouped(o, e, numCategories, barHeight) ==
    LET barWidth == 3
        groupSpacing == 2
        barSpacing == 0
        groupWidth == Len(o.Series) * barWidth + (Len(o.Series) - 1) * barSpacing
        cell(row, cat, i) ==
            (IF row <= groupedBarRows(o, i, cat)
             THEN Flatten([k \in 1..barWidth |->
                             renderVerticalBar(shouldUseUnicode(o, e), isColorEnabled(o, e),
                                               seriesColor(o, i))])
             ELSE Repeat(<<SP>>, barWidth))
            \o (IF i < Len(o.Series) THEN Repeat(<<SP>>, barSpacing) ELSE << >>)
        group(row, cat) ==
            Flatten([i \in 1..Len(o.Series) |-> cell(row, cat, i)])
            \o (IF cat < numCategories THEN Repeat(<<SP>>, groupSpacing) ELSE << >>)
        line(k) == Flatten([cat \in 1..numCategories |-> group(barHeight - k + 1, cat)])
                   \o <<NL>>
    IN Flatten([k \in 1..barHeight |-> line(k)])
       \o verticalLabelRow(o, e, numCategories, groupWidth, groupSpacing)

\* stackedHeights[cat][i] of renderVerticalStacked (i = 0 gives the boundary below series 1)
RECURSIVE cumulativeValue(_, _, _)
cumulativeValue(o, cat, i) ==
    IF i = 0 THEN 0 ELSE cumulativeValue(o, cat, i - 1) + valueAt(o.Series[i], cat)

stackedHeightsPerSeries(o, cat, i) ==
    Trunc(multiBarHeight(o) * valueAt(o.Series[i], cat), multiMaxVal(o))

stackedHeights(o, cat, i) ==
    Trunc(multiBarHeight(o) * cumulativeValue(o, cat, i), multiMaxVal(o))

\* seriesIdx of renderVerticalStacked for one row of one category; 0 when no series owns it
RECURSIVE stackedOwner(_, _, _, _)
stackedOwner(o, cat, row, i) ==
    IF i < 1 THEN 0
    ELSE IF row <= stackedHeights(o, cat, i)
            /\ row > (IF i > 1 THEN stackedHeights(o, cat, i - 1) ELSE 0)
         THEN i
         ELSE stackedOwner(o, cat, row, i - 1)

renderVerticalStacked(o, e, numCategories, barHeight) ==
    LET barWidth == 3
        spacing == 1
        cell(row, cat) ==
            LET owner == stackedOwner(o, cat, row, Len(o.Series))
            IN (IF owner >= 1
                THEN Flatten([k \in 1..barWidth |->
                                renderVerticalBar(shouldUseUnicode(o, e), isColorEnabled(o, e),
                                                  seriesColor(o, owner))])
                ELSE Repeat(<<SP>>, barWidth))
               \o (IF cat < numCategories THEN Repeat(<<SP>>, spacing) ELSE << >>)
        line(k) == Flatten([cat \in 1..numCategories |-> cell(barHeight - k + 1, cat)])
                   \o <<NL>>
    IN Flatten([k \in 1..barHeight |-> line(k)])
       \o verticalLabelRow(o, e, numCategories, barWidth, spacing)

renderVerticalMultiSeries(o, e) ==
    IF \E i \in 1..Len(o.Series) : ~AllValid(o.Series[i].Data) THEN << >>
    ELSE LET numCategories == numCategoriesOf(o.Series)
             barHeight == multiBarHeight(o)
         IN titleLine(o, e)
            \o (IF o.BarMode = "stacked"
                THEN renderVerticalStacked(o, e, numCategories, barHeight)
                ELSE renderVerticalGrouped(o, e, numCategories, barHeight))
            \o barLegend(o, e)

\* BarChart.Render
BarChartRender(o, e) ==
    IF Len(o.Data) = 0 /\ Len(o.Series) = 0 THEN << >>
    ELSE IF Len(o.Series) > 0
         THEN (IF o.Direction = "horizontal" THEN renderHorizontalMultiSeries(o, e)
               ELSE renderVerticalMultiSeries(o, e))
    ELSE IF o.Direction = "horizontal" THEN renderHorizontal(o, e)
    ELSE renderVertical(o, e)

(***************************************************************************)
(* line.go: dimensions, scaling and the segment walk                       *)
(***************************************************************************)
\* LineChart.getAllSeries
getAllSeries(o) ==
    IF Len(o.Series) > 0 THEN o.Series
    ELSE IF Len(o.Data) > 0 THEN <<[Label |-> << >>, Data |-> o.Data, Color |-> ""]>>
    ELSE << >>

\* LineChart.shouldUseUnicode
lineShouldUseUnicode(o, e) ==
    IF o.Style = "ascii" THEN FALSE
    ELSE IF o.Style \in {"unicode", "braille"} THEN TRUE
    ELSE e.unicode

lineChartHeightAxesAlways(o) ==
    LET h1 == IF o.Title # << >> THEN o.Height - 1 ELSE o.Height
        h2 == h1 - 2
    IN IF h2 < 3 THEN 10 ELSE h2

\* chartHeight of renderASCII / renderBraille
lineChartHeight(o) ==
    LET h1 == IF o.Title # << >> THEN o.Height - 1 ELSE o.Height
        h2 == IF o.ShowAxes THEN h1 - 2 ELSE h1
    IN IF h2 < 3 THEN 10 ELSE h2

yAxisWidthOf(o) == IF o.ShowAxes THEN 8 ELSE 0

\* chartWidth of renderASCII / renderBraille
lineChartWidth(o) ==
    LET w == o.Width - yAxisWidthOf(o)
    IN IF w < 10 THEN 60 ELSE w

\* LineChart.findGlobalMinMax
findGlobalMinMax(allSeries) ==
    MinMax(Flatten([i \in 1..Len(allSeries) |-> allSeries[i].Data]))

globalMinOf(o) == findGlobalMinMax(getAllSeries(o))[1].n

\* globalMax after the "globalMin == globalMax" adjustment
globalMaxOf(o) ==
    LET mm == findGlobalMinMax(getAllSeries(o))
    IN IF mm[1] = mm[2] THEN mm[1].n + 1 ELSE mm[2].n

\* x of point i (0-based) of n points on a grid `width` cells wide
pointX(i, n, width) ==
    ClampInt(IF n = 1 THEN width \div 2 ELSE Trunc(i * (width - 1), n - 1), 0, width - 1)

\* y of a value on a grid `height` cells high
pointY(val, minVal, maxVal, height) ==
    ClampInt(Trunc((maxVal - val) * (height - 1), maxVal - minVal), 0, height - 1)

\* "Map data points to grid coordinates": the points <<x, y>> of a series
seriesPoints(data, width, height, minVal, maxVal) ==
    [i \in 1..Len(data) |->
        <<pointX(i - 1, Len(data), width), pointY(data[i].n, minVal, maxVal, height)>>]

\* "if e2 > -dy" of the loop of drawLine / drawBrailleLine, e2 = 2 * err
stepsX(err, dy) == 2 * err > -dy

\* "if e2 < dx"
stepsY(err, dx) == 2 * err < dx

\* the cells visited by the loop of drawLine / drawBrailleLine, in order
RECURSIVE walkFrom(_, _, _, _, _, _, _, _, _)
walkFrom(x, y, x2, y2, dx, dy, sx, sy, err) ==
    IF x = x2 /\ y = y2 THEN <<<<x, y>>>>
    ELSE LET stepX == stepsX(err, dy)
             stepY == stepsY(err, dx)
         IN <<<<x, y>>>> \o walkFrom(IF stepX THEN x + sx ELSE x,
                                     IF stepY THEN y + sy ELSE y,
                                     x2, y2, dx, dy, sx, sy,
                                     err - (IF stepX THEN dy ELSE 0) + (IF stepY THEN dx ELSE 0))

walk(x1, y1, x2, y2) ==
    LET dx == AbsInt(x2 - x1)
        dy == AbsInt(y2 - y1)
    IN walkFrom(x1, y1, x2, y2, dx, dy,
                IF x1 > x2 THEN -1 ELSE 1, IF y1 > y2 THEN -1 ELSE 1, dx - dy)

\* LineChart.getLineChar
getLineChar(x, y, x1, y1, x2, y2, useUnicode) ==
    LET dy == y2 - y1
        dx == x2 - x1
    IN IF dx = 0 THEN (IF useUnicode THEN lineVertical ELSE asciiVertical)
       ELSE IF dy = 0 THEN (IF useUnicode THEN lineHorizontal ELSE asciiHorizontal)
       ELSE IF (dy > 0 /\ dx > 0) \/ (dy < 0 /\ dx < 0)
            THEN (IF useUnicode THEN lineDown ELSE asciiDown)
       ELSE (IF useUnicode THEN lineUp ELSE asciiUp)

\* a buffer index is valid iff 0 <= index < length (indices are 0-based as in the source)
InRange(index, length) == index >= 0 /\ index < length

(***************************************************************************)
(* line.go: character-mode raster.  A raster state is [grid, colors, ok];  *)
(* ok is FALSE once an index outside a buffer has been used (Go panics).   *)
(***************************************************************************)
blankRaster(width, height) ==
    [grid |-> [r \in 1..height |-> [c \in 1..width |-> SP]],
     colors |-> [r \in 1..height |-> [c \in 1..width |-> ""]],
     ok |-> TRUE]

\* LineChart.drawLine: the cells its loop visits, in order, each with the character the
\* loop offers to the cell: <<x, y, char>>
drawLine(x1, y1, x2, y2, useUnicode) ==
    LET cells == walk(x1, y1, x2, y2)
    IN [k \in 1..Len(cells) |->
          <<cells[k][1], cells[k][2], getLineChar(x1, y1, x1, y1, x2, y2, useUnicode)>>]

\* a loop body that writes the glyph it offers and leaves the color tag as it was
RECURSIVE settleGlyphOnly(_, _, _, _)
settleGlyphOnly(cell, offers, k, color) ==
    IF k > Len(offers) THEN cell
    ELSE settleGlyphOnly(IF cell[1] \in {SP, lineHorizontal, asciiHorizontal}
                         THEN <<offers[k][3], cell[2]>> ELSE cell,
                         offers, k + 1, color)

\* a loop body that writes to the cell whatever the cell holds
settleAlways(cell, offers, k, color) ==
    IF Len(offers) = 0 THEN cell ELSE <<offers[Len(offers)][3], color>>

\* the loop body of drawLine applied to one cell for the offers it gets, in order: a
\* cell <<char, color>> takes the offer while it is blank or holds a horizontal line
RECURSIVE settle(_, _, _, _)
settle(cell, offers, k, color) ==
    IF k > Len(offers) THEN cell
    ELSE settle(IF cell[1] \in {SP, lineHorizontal, asciiHorizontal}
                THEN <<offers[k][3], color>> ELSE cell,
                offers, k + 1, color)

\* LineChart.renderSeriesASCII
renderSeriesASCII(rs, data, width, height, minVal, maxVal, useUnicode, color) ==
    IF Len(data) = 0 THEN rs
    ELSE LET points == seriesPoints(data, width, height, minVal, maxVal)
             \* "Draw lines between consecutive points"
             offers == Flatten([i \in 1..(Len(points) - 1) |->
                                  drawLine(points[i][1], points[i][2],
                                           points[i + 1][1], points[i + 1][2], useUnicode)])
             inGrid(x, y) == InRange(y, Len(rs.grid)) /\ InRange(x, Len(rs.grid[1]))
             ok == /\ rs.ok
                   /\ \A k \in 1..Len(offers) : inGrid(offers[k][1], offers[k][2])
                   /\ \A i \in 1..Len(points) : inGrid(points[i][1], points[i][2])
             cell(r, c) ==
                 \* "Draw data points" overwrites what the lines left
                 IF \E i \in 1..Len(points) : points[i] = <<c - 1, r - 1>>
                 THEN <<IF useUnicode THEN lineDot ELSE asciiDot, color>>
                 ELSE settle(<<rs.grid[r][c], rs.colors[r][c]>>,
                             SelectSeq(offers, LAMBDA w : w[1] = c - 1 /\ w[2] = r - 1),
                             1, color)
         IN IF ~ok THEN [rs EXCEPT !.ok = FALSE]
            ELSE [grid |-> [r \in 1..Len(rs.grid) |->
                              [c \in 1..Len(rs.grid[1]) |-> cell(r, c)[1]]],
                  colors |-> [r \in 1..Len(rs.grid) |->
                                [c \in 1..Len(rs.grid[1]) |-> cell(r, c)[2]]],
                  ok |-> TRUE]

(***************************************************************************)
(* line.go: Braille raster.  A raster state is [dots, colors, ok].         *)
(***************************************************************************)
\* a table that numbers the dots row by row
brailleDotsRowMajor == <<<<1, 2>>, <<4, 8>>, <<16, 32>>, <<64, 128>>>>

brailleDots == <<<<1, 8>>, <<2, 16>>, <<4, 32>>, <<64, 128>>>>

blankDots(charWidth, charHeight) ==
    [dots |-> [r \in 1..(charHeight * 4) |-> [c \in 1..(charWidth * 2) |-> FALSE]],
     colors |-> [r \in 1..charHeight |-> [c \in 1..charWidth |-> ""]],
     ok |-> TRUE]

\* LineChart.drawBrailleLine: the dots <<x, y>> its loop sets, those inside the dot grid
drawBrailleLine(bs, x1, y1, x2, y2) ==
    LET cells == walk(x1, y1, x2, y2)
    IN {cells[k] : k \in {j \in 1..Len(cells) :
                            /\ InRange(cells[j][2], Len(bs.dots))
                            /\ InRange(cells[j][1], Len(bs.dots[1]))}}

\* only the cells of the dots that were not set before get the color
brailleColoredNewOnly(bs, set, charWidth, charHeight) ==
    {<<d[1] \div 2, d[2] \div 4>> : d \in {q \in set : ~bs.dots[q[2] + 1][q[1] + 1]}}
    \cap ((0..(charWidth - 1)) \X (0..(charHeight - 1)))

\* the character cells <<col, row>> that get the color when the dots of `set` are set:
\* "charRow < charHeight && charCol < charWidth"
brailleColored(bs, set, charWidth, charHeight) ==
    {<<d[1] \div 2, d[2] \div 4>> : d \in set}
    \cap ((0..(charWidth - 1)) \X (0..(charHeight - 1)))

\* LineChart.renderSeriesBraille
renderSeriesBraille(bs, data, dotWidth, dotHeight, charWidth, charHeight, minVal, maxVal, color) ==
    IF Len(data) = 0 THEN bs
    ELSE IF Len(data) = 1
         THEN LET x == dotWidth \div 2
                  y == pointY(data[1].n, minVal, maxVal, dotHeight)
              IN IF ~bs.ok \/ ~InRange(y, Len(bs.dots)) \/ ~InRange(x, Len(bs.dots[1]))
                    \/ ~InRange(y \div 4, Len(bs.colors))
                    \/ ~InRange(x \div 2, Len(bs.colors[1]))
                 THEN [bs EXCEPT !.ok = FALSE]
                 ELSE [bs EXCEPT !.dots[y + 1][x + 1] = TRUE,
                                 !.colors[(y \div 4) + 1][(x \div 2) + 1] = color]
    ELSE LET set == UNION {drawBrailleLine(bs,
                               pointX(i - 1, Len(data), dotWidth),
                               pointY(data[i].n, minVal, maxVal, dotHeight),
                               pointX(i, Len(data), dotWidth),
                               pointY(data[i + 1].n, minVal, maxVal, dotHeight)) :
                           i \in 1..(Len(data) - 1)}
             colored == brailleColored(bs, set, charWidth, charHeight)
         IN [dots |-> [r \in 1..Len(bs.dots) |->
                         [c \in 1..Len(bs.dots[1]) |->
                            bs.dots[r][c] \/ <<c - 1, r - 1>> \in set]],
             colors |-> [r \in 1..Len(bs.colors) |->
                           [c \in 1..Len(bs.colors[1]) |->
                              IF <<c - 1, r - 1>> \in colored THEN color
                              ELSE bs.colors[r][c]]],
             ok |-> bs.ok]

(***************************************************************************)
(* line.go: assembling the output string                                   *)
(***************************************************************************)
\* floor(a / b) for b > 0
FloorDiv(a, b) == IF a >= 0 THEN a \div b ELSE -((-a + b - 1) \div b)

\* num/den (den > 0) rounded to a whole number of tenths, ties to even
RoundTenths(num, den) ==
    LET lo == FloorDiv(10 * num, den)
        rem2 == 2 * (10 * num - lo * den)
    IN IF rem2 > den \/ (rem2 = den /\ lo % 2 = 1) THEN lo + 1 ELSE lo

\* fmt.Sprintf("%.1f", num/den)
FormatTenths(num, den) ==
    LET t == RoundTenths(num, den)
        a == AbsInt(t)
    IN (IF num < 0 THEN <<45>> ELSE << >>) \o Digits(a \div 10) \o <<46, 48 + (a % 10)>>

\* the "%7.1f " Y axis label of a chart row (row is 0-based)
yAxisLabel(o, e, row, chartHeight) ==
    IF o.ShowAxes
    THEN LET globalMin == globalMinOf(o)
             globalMax == globalMaxOf(o)
             label == PadLeft(FormatTenths(globalMax * (chartHeight - 1)
                                             - row * (globalMax - globalMin),
                                           chartHeight - 1), 7) \o <<SP>>
         IN IF isColorEnabled(o, e) THEN Colorize(label, themeOf(o).Muted, TRUE) ELSE label
    ELSE << >>

\* the byte writes of renderXAxisLabels, in order: <<index, byte>> for every
\* label byte whose index passes the "start+j < width" test
labelWrites(labels, width) ==
    LET position(i) == IF Len(labels) = 1 THEN width \div 2
                       ELSE Trunc((i - 1) * (width - 1), Len(labels) - 1)
        start(i) == LET s0 == position(i) - (Len(labels[i]) \div 2)
                        s1 == IF s0 < 0 THEN 0 ELSE s0
                    IN IF s1 + Len(labels[i]) > width THEN width - Len(labels[i]) ELSE s1
        writes(i) == SelectSeq([j \in 1..Len(labels[i]) |-> <<start(i) + j - 1, labels[i][j]>>],
                               LAMBDA w : w[1] < width)
    IN Flatten([i \in 1..Len(labels) |-> writes(i)])

RECURSIVE applyWrites(_, _, _)
applyWrites(line, writes, k) ==
    IF k > Len(writes) THEN line
    ELSE applyWrites([line EXCEPT ![writes[k][1] + 1] = writes[k][2]], writes, k + 1)

\* renderXAxisLabels writes only inside its buffer
labelsInBounds(labels, width) ==
    \A k \in 1..Len(labelWrites(labels, width)) :
        InRange(labelWrites(labels, width)[k][1], width)

\* LineChart.renderXAxisLabels (defined when labelsInBounds)
renderXAxisLabels(o, e, width) ==
    IF Len(o.Labels) = 0 THEN << >>
    ELSE LET text == applyWrites([i \in 1..width |-> SP], labelWrites(o.Labels, width), 1)
         IN IF isColorEnabled(o, e) THEN Colorize(text, themeOf(o).Muted, TRUE) ELSE text

\* the X axis block of renderASCII / renderBraille
xAxisBlock(o, e, chartWidth, axisRune) ==
    IF o.ShowAxes
    THEN LET axisLine == Repeat(<<axisRune>>, chartWidth)
         IN Repeat(<<SP>>, yAxisWidthOf(o))
            \o (IF isColorEnabled(o, e) THEN Colorize(axisLine, themeOf(o).Muted, TRUE)
                ELSE axisLine)
            \o <<NL>>
            \o (IF Len(o.Labels) > 0
                THEN Repeat(<<SP>>, yAxisWidthOf(o)) \o renderXAxisLabels(o, e, chartWidth)
                     \o <<NL>>
                ELSE << >>)
    ELSE << >>

\* the legend block of renderASCII / renderBraille
lineLegend(o, e, markerRune) ==
    LET allSeries == getAllSeries(o)
        entry(i) ==
            LET color == IF allSeries[i].Color = "" THEN GetSeriesColor(themeOf(o), i - 1)
                         ELSE allSeries[i].Color
                label == IF allSeries[i].Label = << >>
                         THEN <<83, 101, 114, 105, 101, 115, SP>> \o Digits(i)
                         ELSE allSeries[i].Label
            IN (IF isColorEnabled(o, e) THEN Colorize(<<markerRune>>, color, TRUE)
                ELSE <<markerRune>>)
               \o <<SP>> \o label \o <<SP, SP>>
    IN IF Len(allSeries) > 1
       THEN <<NL>> \o Flatten([i \in 1..Len(allSeries) |-> entry(i)]) \o <<NL>>
       ELSE << >>

\* the "Build result" part of renderASCII
buildASCII(o, e, g, cs) ==
    LET chartHeight == lineChartHeight(o)
        chartWidth == lineChartWidth(o)
        useUnicode == lineShouldUseUnicode(o, e)
        cell(row, col) ==
            IF isColorEnabled(o, e) /\ cs[row][col] # ""
            THEN Colorize(<<g[row][col]>>, cs[row][col], TRUE) ELSE <<g[row][col]>>
        line(row) == yAxisLabel(o, e, row - 1, chartHeight)
                     \o Flatten([col \in 1..chartWidth |-> cell(row, col)]) \o <<NL>>
    IN titleLine(o, e)
       \o Flatten([row \in 1..chartHeight |-> line(row)])
       \o xAxisBlock(o, e, chartWidth, IF useUnicode THEN lineHorizontal ELSE asciiHorizontal)
       \o lineLegend(o, e, IF useUnicode THEN legendMarker ELSE asciiDot)

\* the Braille pattern of character cell (row, col), both 0-based
braillePattern(dots, row, col) ==
    LET bit(dotRow, dotCol) ==
            LET gridRow == row * 4 + dotRow
                gridCol == col * 2 + dotCol
            IN IF gridRow < Len(dots) /\ gridCol < Len(dots[1])
                  /\ dots[gridRow + 1][gridCol + 1]
               THEN brailleDots[dotRow + 1][dotCol + 1] ELSE 0
    IN bit(0, 0) + bit(0, 1) + bit(1, 0) + bit(1, 1)
       + bit(2, 0) + bit(2, 1) + bit(3, 0) + bit(3, 1)

\* the "Build result" part of renderBraille
buildBraille(o, e, dots, cs) ==
    LET chartHeight == lineChartHeight(o)
        chartWidth == lineChartWidth(o)
        cell(row, col) ==
            LET char == <<brailleBase + braillePattern(dots, row - 1, col - 1)>>
            IN IF isColorEnabled(o, e) /\ cs[row][col] # ""
               THEN Colorize(char, cs[row][col], TRUE) ELSE char
        line(row) == yAxisLabel(o, e, row - 1, chartHeight)
                     \o Flatten([col \in 1..chartWidth |-> cell(row, col)]) \o <<NL>>
    IN titleLine(o, e)
       \o Flatten([row \in 1..chartHeight |-> line(row)])
       \o xAxisBlock(o, e, chartWidth, lineHorizontal)
       \o lineLegend(o, e, legendMarker)

(***************************************************************************)
(* sparkline.go: sparklines                                                *)
(***************************************************************************)
sparkChars == <<9601, 9602, 9603, 9604, 9605, 9606, 9607, 9608>>
sparkCharsASCII == <<95, 46, 45, 61, 43, 42, 35, 64>>

\* internal.Normalize: <<normalized, min, max>>; an element of normalized is the
\* fraction <<num, den>>
NormalizeFlatToZero(data) ==
    IF Len(data) = 0 THEN <<data, F(0), F(0)>>
    ELSE LET mm == MinMax(data)
         IN IF mm[1] = mm[2] THEN <<[i \in 1..Len(data) |-> <<0, 1>>], mm[1], mm[2]>>
            ELSE <<[i \in 1..Len(data) |-> <<data[i].n - mm[1].n, mm[2].n - mm[1].n>>],
                   mm[1], mm[2]>>

Normalize(data) ==
    IF Len(data) = 0 THEN <<data, F(0), F(0)>>
    ELSE LET mm == MinMax(data)
         IN IF mm[1] = mm[2] THEN <<[i \in 1..Len(data) |-> <<1, 2>>], mm[1], mm[2]>>
            ELSE <<[i \in 1..Len(data) |-> <<data[i].n - mm[1].n, mm[2].n - mm[1].n>>],
                   mm[1], mm[2]>>

\* the <<n, w, i>> with n < 40 for which the float64 product float64(i) * (float64(n) /
\* float64(w)) is below the integer i * n / w
sampleRoundedDown == {<<30, 22, 11>>, <<30, 26, 13>>}

\* int(float64(i) * step) of sampleData, step = float64(n) / float64(w), for n < 40
sampleIndexExact(i, n, w) == Trunc(i * n, w)

sampleIndex(i, n, w) ==
    IF <<n, w, i>> \in sampleRoundedDown THEN Trunc(i * n, w) - 1 ELSE Trunc(i * n, w)

sampleData(data, targetWidth) ==
    IF Len(data) <= targetWidth THEN data
    ELSE [i \in 1..targetWidth |->
            LET index == sampleIndex(i - 1, Len(data), targetWidth)
            IN data[(IF index >= Len(data) THEN Len(data) - 1 ELSE index) + 1]]

\* Sparkline.getColorForLevel
getColorForLevel(o, level, maxLevel) ==
    IF 100 * level < 33 * (maxLevel - 1) THEN themeOf(o).Muted
    ELSE IF 100 * level < 66 * (maxLevel - 1) THEN themeOf(o).Primary
    ELSE themeOf(o).Accent

\* level of one normalized value: int(val * float64(len(chars)-1)), kept in 0..len(chars)-1
sparkLevelRounded(val, nchars) ==
    ClampInt(Trunc(2 * val[1] * (nchars - 1) + val[2], 2 * val[2]), 0, nchars - 1)

sparkLevel(val, nchars) == ClampInt(Trunc(val[1] * (nchars - 1), val[2]), 0, nchars - 1)

\* Sparkline.Render
SparklineRender(o, e) ==
    IF Len(o.Data) = 0 THEN << >>
    ELSE IF ~AllValid(o.Data) THEN << >>
    ELSE LET chars == IF o.Style = "ascii" \/ (o.Style = "auto" /\ ~e.unicode)
                      THEN sparkCharsASCII ELSE sparkChars
             normalized == Normalize(o.Data)[1]
             data == IF o.Width > 0 /\ Len(normalized) > o.Width
                     THEN sampleData(normalized, o.Width) ELSE normalized
             glyph(i) ==
                 LET level == sparkLevel(data[i], Len(chars))
                 IN IF o.ColorEnabled = "true"
                    THEN Colorize(<<chars[level + 1]>>,
                                  getColorForLevel(o, level, Len(chars)), TRUE)
                    ELSE <<chars[level + 1]>>
         IN Flatten([i \in 1..Len(data) |-> glyph(i)])

(***************************************************************************)
(* sparkline.go: pie charts                                                *)
(***************************************************************************)
legendChars == <<9679, 9675, 9670, 9671, 9632, 9633, 9650, 9651, 9733, 9734>>
legendCharsASCII == <<42, 111, 35, 120, 43, 64, 61, 126, 37, 38>>
pieRadius == 6
pieHalfWidth == 12

RECURSIVE positiveSum(_, _)
positiveSum(data, i) ==
    IF i = 0 THEN 0
    ELSE positiveSum(data, i - 1) + (IF data[i].n > 0 THEN data[i].n ELSE 0)

RECURSIVE valueSum(_, _)
valueSum(data, i) == IF i = 0 THEN 0 ELSE valueSum(data, i - 1) + data[i].n

pieTotalCountsAll(o) == valueSum(o.Data, Len(o.Data))

\* total of calculateSlices
pieTotal(o) == positiveSum(o.Data, Len(o.Data))

\* PieChart.calculateSlices; Percentage is the fraction <<num, den>> of 100*v/total
calculateSlices(o) ==
    IF pieTotal(o) = 0 THEN << >>
    ELSE [i \in 1..Len(o.Data) |->
            [Label |-> IF i <= Len(o.Labels) /\ o.Labels[i] # << >> THEN o.Labels[i]
                       ELSE <<73, 116, 101, 109, SP>> \o Digits(i),
             Value |-> o.Data[i].n,
             Percentage |-> IF o.Data[i].n > 0 THEN <<100 * o.Data[i].n, pieTotal(o)>>
                            ELSE <<0, 1>>]]

\* math.Atan2(ay, ax/2) for 0 <= ax <= 12, 0 <= ay <= 6, in millionths of a full turn
atanTable ==
    <<<<0, 250000, 250000, 250000, 250000, 250000, 250000>>,
      <<0, 176208, 211010, 223716, 230208, 234137, 236768>>,
      <<0, 125000, 176208, 198792, 211010, 218584, 223716>>,
      <<0, 93584, 147584, 176208, 192900, 203613, 211010>>,
      <<0, 73792, 125000, 156416, 176208, 189441, 198792>>,
      <<0, 60559, 107388, 139429, 161096, 176208, 187167>>,
      <<0, 51208, 93584, 125000, 147584, 163990, 176208>>,
      <<0, 44293, 82625, 112781, 135595, 152800, 165954>>,
      <<0, 38990, 73792, 102416, 125000, 142612, 156416>>,
      <<0, 34802, 66562, 93584, 115649, 133369, 147584>>,
      <<0, 31416, 60559, 86010, 107388, 125000, 139429>>,
      <<0, 28625, 55509, 79473, 100076, 117427, 131915>>,
      <<0, 26284, 51208, 73792, 93584, 110571, 125000>>>>

\* math.Atan2(float64(y), float64(x)/aspectRatio) in millionths of a full turn,
\* in (-500000, 500000]
pieAngle(x, y) ==
    LET a == atanTable[AbsInt(x) + 1][AbsInt(y) + 1]
    IN IF x >= 0 /\ y >= 0 THEN a
       ELSE IF x >= 0 THEN -a
       ELSE IF y >= 0 THEN 500000 - a
       ELSE a - 500000

\* distance <= float64(radius) - 0.5, with actualX = x / aspectRatio
insideCircle(x, y) == x * x + 4 * y * y <= (2 * pieRadius - 1) * (2 * pieRadius - 1)

\* angles[i] of renderCircularPieWithLegend (i is 0-based) times pieTotal, in millionths
\* of a turn: -1/4 turn plus the cumulative share of slices 1..i
pieBoundary(o, i) == -250000 * pieTotal(o) + 1000000 * positiveSum(o.Data, i)

\* a search that takes every range as one that does not pass the -180/180 boundary
RECURSIVE findSliceFromNoWrap(_, _, _)
findSliceFromNoWrap(o, angle, i) ==
    IF i >= Len(o.Data) THEN Len(o.Data) - 1
    ELSE IF angle * pieTotal(o) >= pieBoundary(o, i)
            /\ angle * pieTotal(o) < pieBoundary(o, i + 1) THEN i
    ELSE findSliceFromNoWrap(o, angle, i + 1)

\* PieChart.findSliceForAngle; the result is the 0-based slice index
RECURSIVE findSliceFrom(_, _, _)
findSliceFrom(o, angle, i) ==
    IF i >= Len(o.Data) THEN Len(o.Data) - 1
    ELSE LET startAngle == pieBoundary(o, i)
             endAngle == pieBoundary(o, i + 1)
             a == angle * pieTotal(o)
         IN IF endAngle > 500000 * pieTotal(o)
            THEN (IF a >= startAngle \/ a < endAngle - 1000000 * pieTotal(o) THEN i
                  ELSE findSliceFrom(o, angle, i + 1))
            ELSE IF a >= startAngle /\ a < endAngle THEN i
            ELSE findSliceFrom(o, angle, i + 1)

findSliceForAngle(o, angle) == findSliceFrom(o, angle, 0)

\* PieChart.renderCircularPieWithLegend
renderCircularPieWithLegend(o, e) ==
    LET slices == calculateSlices(o)
        colorEnabled == isColorEnabled(o, e)
        lChars == IF shouldUseUnicode(o, e) THEN legendChars ELSE legendCharsASCII
        swatch(sliceIndex) ==
            IF colorEnabled
            THEN Colorize(<<pieChar>>, GetSeriesColor(themeOf(o), sliceIndex), TRUE)
            ELSE <<lChars[(sliceIndex % Len(lChars)) + 1]>>
        cell(x, y) == IF insideCircle(x, y) THEN swatch(findSliceForAngle(o, pieAngle(x, y)))
                      ELSE <<SP>>
        pieRow(k) == Flatten([j \in 1..(2 * pieHalfWidth + 1) |->
                                cell(j - 1 - pieHalfWidth, k - 1 - pieRadius)])
        numRows == 2 * pieRadius + 1
        legendEntry(i) ==
            swatch(i - 1) \o <<SP>> \o PadRight(slices[i].Label, 8) \o <<SP>>
            \o PadLeft(FormatTenths(slices[i].Percentage[1], slices[i].Percentage[2]), 5)
            \o <<37>>
            \o (IF o.ShowValues THEN <<SP, 91>> \o FormatF1(slices[i].Value) \o <<93>>
                ELSE << >>)
        legendStartRow == LET st == Trunc(numRows - Len(slices), 2)
                          IN IF st < 0 THEN 0 ELSE st
        line(k) == LET legendIdx == (k - 1) - legendStartRow
                   IN pieRow(k) \o <<SP, SP, SP>>
                      \o (IF legendIdx >= 0 /\ legendIdx < Len(slices)
                          THEN legendEntry(legendIdx + 1) ELSE << >>)
                      \o <<NL>>
    IN Flatten([k \in 1..numRows |-> line(k)])

\* PieChart.Render
PieChartRender(o, e) ==
    IF Len(o.Data) = 0 THEN << >>
    ELSE IF ~AllValid(o.Data) THEN << >>
    ELSE IF Len(calculateSlices(o)) = 0 THEN << >>
    ELSE (IF o.Title # << >>
          THEN (IF isColorEnabled(o, e) THEN Colorize(o.Title, themeOf(o).Text, TRUE)
                ELSE o.Title) \o <<NL, NL>>
          ELSE << >>)
         \o renderCircularPieWithLegend(o, e)

(***************************************************************************)
(* Inputs                                                                  *)
(***************************************************************************)
SeqsUpTo(S, n) == UNION {[1..k -> S] : k \in 0..n}
SeqsFrom(S, lo, hi) == UNION {[1..k -> S] : k \in lo..hi}

Floats(S) == {F(n) : n \in S}

Text(n) == [i \in 1..n |-> 96 + i]

MkSeries(label, data) == [Label |-> label, Data |-> data, Color |-> ""]

\* series lists of 1..n series named A, B, ... with data drawn from D
SeriesLists(D, n) ==
    UNION {{[i \in 1..k |-> MkSeries(<<64 + i>>, f[i])] : f \in [1..k -> D]} : k \in 1..n}

\* NewOptions defaults, overridden field by field through the With* options
DefaultOptions ==
    [Width |-> 80, Height |-> 24, Title |-> << >>, Data |-> << >>, Labels |-> << >>,
     Series |-> << >>, ColorEnabled |-> "nil", Style |-> "auto", Direction |-> "horizontal",
     ShowValues |-> FALSE, ShowAxes |-> TRUE, ShowLegend |-> FALSE, BarMode |-> "grouped"]

Envs == {[unicode |-> TRUE, color |-> FALSE]}

\* no Render call of the chart has returned yet
NoCall == [called |-> FALSE, result |-> << >>]

\* there is no second chart
NoChart == [kind |-> "none", opts |-> DefaultOptions, pc |-> "done", result |-> << >>]

\* the parameters x1, y1, x2, y2 and the locals of a drawLine / drawBrailleLine call, and
\* the cells its loop has been at, in order; here no call is under way
NoSegment ==
    [x1 |-> 0, y1 |-> 0, x2 |-> 0, y2 |-> 0, dx |-> 0, dy |-> 0, sx |-> 1, sy |-> 1,
     err |-> 0, x |-> 0, y |-> 0, visited |-> << >>]

idle(o, e, kind) ==
    /\ firstCall = NoCall
    /\ otherChart = NoChart
    /\ themeVar = DefaultTheme
    /\ linePoints = << >>
    /\ seg = NoSegment
    /\ chart = kind
    /\ opts = o
    /\ env = e
    /\ pc = "start"
    /\ result = << >>
    /\ grid = << >>
    /\ colors = << >>
    /\ dotGrid = << >>
    /\ colorGrid = << >>
    /\ seriesIdx = 0

(***************************************************************************)
(* Operations: one Render call per chart                                   *)
(***************************************************************************)
\* BarChart.Render
BarRender ==
    /\ pc = "start"
    /\ chart = "bar"
    /\ result' = BarChartRender(opts, env)
    /\ pc' = "done"
    /\ UNCHANGED <<seg, linePoints, firstCall, otherChart, themeVar, chart, opts, env, grid, colors, dotGrid, colorGrid, seriesIdx>>

\* PieChart.Render
PieRender ==
    /\ pc = "start"
    /\ chart = "pie"
    /\ result' = PieChartRender(opts, env)
    /\ pc' = "done"
    /\ UNCHANGED <<seg, linePoints, firstCall, otherChart, themeVar, chart, opts, env, grid, colors, dotGrid, colorGrid, seriesIdx>>

\* Sparkline.Render
SparkRender ==
    /\ pc = "start"
    /\ chart = "spark"
    /\ result' = SparklineRender(opts, env)
    /\ pc' = "done"
    /\ UNCHANGED <<seg, linePoints, firstCall, otherChart, themeVar, chart, opts, env, grid, colors, dotGrid, colorGrid, seriesIdx>>

\* a call of internal.Normalize on the data: the returned triple is the result, the
\* argument is only read
NormalizeCall ==
    /\ pc = "start"
    /\ chart = "normalize"
    /\ result' = Normalize(opts.Data)
    /\ pc' = "done"
    /\ UNCHANGED <<seg, linePoints, firstCall, otherChart, themeVar, chart, opts, env, grid, colors, dotGrid, colorGrid, seriesIdx>>

\* the Render call of the chart has returned and Render is called on the same chart
\* once more: the returned string is kept for comparison, the locals of the call are gone
RenderAgain ==
    /\ pc = "done"
    /\ chart \in {"bar", "line", "pie", "spark"}
    /\ ~firstCall.called
    /\ firstCall' = [called |-> TRUE, result |-> result]
    /\ pc' = "start"
    /\ result' = << >>
    /\ seriesIdx' = 0
    /\ linePoints' = << >>
    /\ UNCHANGED <<seg, otherChart, themeVar, chart, opts, env, grid, colors, dotGrid, colorGrid>>

\* a whole Render call of the second chart
RenderOther ==
    /\ otherChart.pc = "start"
    /\ otherChart' = [otherChart EXCEPT
                    !.pc = "done",
                    !.result = CASE otherChart.kind = "bar" -> BarChartRender(otherChart.opts, env)
                                 [] otherChart.kind = "pie" -> PieChartRender(otherChart.opts, env)
                                 [] OTHER -> SparklineRender(otherChart.opts, env)]
    /\ UNCHANGED <<seg, linePoints, firstCall, themeVar, chart, opts, env, pc, result, grid, colors, dotGrid,
                   colorGrid, seriesIdx>>

\* LineChart.Render up to the allocation of the grids in renderASCII / renderBraille
LineRender ==
    /\ pc = "start"
    /\ chart = "line"
    /\ LET allSeries == getAllSeries(opts)
       IN IF Len(allSeries) = 0 \/ \E i \in 1..Len(allSeries) : ~AllValid(allSeries[i].Data)
          THEN /\ result' = << >>
               /\ pc' = "done"
               /\ UNCHANGED <<grid, colors, dotGrid, colorGrid>>
          ELSE /\ pc' = "draw"
               /\ result' = result
               /\ IF opts.Style = "braille"
                  THEN LET bs == blankDots(lineChartWidth(opts), lineChartHeight(opts))
                       IN /\ dotGrid' = bs.dots
                          /\ colorGrid' = bs.colors
                          /\ UNCHANGED <<grid, colors>>
                  ELSE LET rs == blankRaster(lineChartWidth(opts), lineChartHeight(opts))
                       IN /\ grid' = rs.grid
                          /\ colors' = rs.colors
                          /\ UNCHANGED <<dotGrid, colorGrid>>
    /\ UNCHANGED <<seg, linePoints, firstCall, otherChart, themeVar, chart, opts, env, seriesIdx>>

\* one iteration of the "Render each series" loop of renderASCII / renderBraille
LineDrawSeries ==
    /\ pc = "draw"
    /\ chart = "line"
    /\ seriesIdx < Len(getAllSeries(opts))
    /\ LET series == getAllSeries(opts)[seriesIdx + 1]
           color == IF series.Color = "" THEN GetSeriesColor(themeOf(opts), seriesIdx)
                    ELSE series.Color
           chartWidth == lineChartWidth(opts)
           chartHeight == lineChartHeight(opts)
       IN IF opts.Style = "braille"
          THEN LET bs == renderSeriesBraille(
                             [dots |-> dotGrid, colors |-> colorGrid, ok |-> TRUE],
                             series.Data, chartWidth * 2, chartHeight * 4, chartWidth,
                             chartHeight, globalMinOf(opts), globalMaxOf(opts), color)
               IN /\ dotGrid' = bs.dots
                  /\ colorGrid' = bs.colors
                  /\ pc' = IF bs.ok THEN "draw" ELSE "panic"
                  /\ UNCHANGED <<grid, colors>>
          ELSE LET rs == renderSeriesASCII(
                             [grid |-> grid, colors |-> colors, ok |-> TRUE],
                             series.Data, chartWidth, chartHeight,
                             globalMinOf(opts), globalMaxOf(opts),
                             lineShouldUseUnicode(opts, env), color)
               IN /\ grid' = rs.grid
                  /\ colors' = rs.colors
                  /\ pc' = IF rs.ok THEN "draw" ELSE "panic"
                  /\ UNCHANGED <<dotGrid, colorGrid>>
    /\ linePoints' = Append(linePoints,
                            IF opts.Style = "braille"
                            THEN seriesPoints(getAllSeries(opts)[seriesIdx + 1].Data,
                                              lineChartWidth(opts) * 2, lineChartHeight(opts) * 4,
                                              globalMinOf(opts), globalMaxOf(opts))
                            ELSE seriesPoints(getAllSeries(opts)[seriesIdx + 1].Data,
                                              lineChartWidth(opts), lineChartHeight(opts),
                                              globalMinOf(opts), globalMaxOf(opts)))
    /\ seriesIdx' = seriesIdx + 1
    /\ UNCHANGED <<seg, firstCall, otherChart, themeVar, chart, opts, env, result>>

\* the "Build result" part of renderASCII / renderBraille
LineBuild ==
    /\ pc = "draw"
    /\ chart = "line"
    /\ seriesIdx = Len(getAllSeries(opts))
    /\ IF opts.ShowAxes /\ Len(opts.Labels) > 0
          /\ ~labelsInBounds(opts.Labels, lineChartWidth(opts))
       THEN /\ pc' = "panic"
            /\ result' = result
       ELSE /\ pc' = "done"
            /\ result' = IF opts.Style = "braille"
                         THEN buildBraille(opts, env, dotGrid, colorGrid)
                         ELSE buildASCII(opts, env, grid, colors)
    /\ UNCHANGED <<seg, linePoints, firstCall, otherChart, themeVar, chart, opts, env, grid, colors, dotGrid, colorGrid, seriesIdx>>

\* the color argument of the drawLine / drawBrailleLine call
segColor == "red"

\* drawLine / drawBrailleLine up to the loop: dx, dy, sx, sy, err and x, y := x1, y1
SegCall ==
    /\ chart = "segment"
    /\ pc = "start"
    /\ seg' = [seg EXCEPT !.dx = AbsInt(seg.x2 - seg.x1),
                          !.dy = AbsInt(seg.y2 - seg.y1),
                          !.sx = IF seg.x1 > seg.x2 THEN -1 ELSE 1,
                          !.sy = IF seg.y1 > seg.y2 THEN -1 ELSE 1,
                          !.err = AbsInt(seg.x2 - seg.x1) - AbsInt(seg.y2 - seg.y1),
                          !.x = seg.x1,
                          !.y = seg.y1]
    /\ pc' = "walk"
    /\ UNCHANGED <<linePoints, firstCall, otherChart, themeVar, chart, opts, env, result,
                   grid, colors, dotGrid, colorGrid, seriesIdx>>

\* an iteration that leaves the error term as it was
segAdvanceKeepErr(s) ==
    LET stepX == stepsX(s.err, s.dy)
        stepY == stepsY(s.err, s.dx)
    IN [s EXCEPT !.x = IF stepX THEN s.x + s.sx ELSE s.x,
                 !.y = IF stepY THEN s.y + s.sy ELSE s.y,
                 !.visited = Append(s.visited, <<s.x, s.y>>)]

\* an iteration that moves along one axis only: the row step is an "else" of the column step
segAdvanceOneAxis(s) ==
    LET stepX == stepsX(s.err, s.dy)
        stepY == ~stepX /\ stepsY(s.err, s.dx)
    IN [s EXCEPT !.err = s.err - (IF stepX THEN s.dy ELSE 0) + (IF stepY THEN s.dx ELSE 0),
                 !.x = IF stepX THEN s.x + s.sx ELSE s.x,
                 !.y = IF stepY THEN s.y + s.sy ELSE s.y,
                 !.visited = Append(s.visited, <<s.x, s.y>>)]

\* the end of an iteration of either loop that does not break: the steps of x and y
segAdvance(s) ==
    LET stepX == stepsX(s.err, s.dy)
        stepY == stepsY(s.err, s.dx)
    IN [s EXCEPT !.err = s.err - (IF stepX THEN s.dy ELSE 0) + (IF stepY THEN s.dx ELSE 0),
                 !.x = IF stepX THEN s.x + s.sx ELSE s.x,
                 !.y = IF stepY THEN s.y + s.sy ELSE s.y,
                 !.visited = Append(s.visited, <<s.x, s.y>>)]

\* the end of an iteration of either loop: break at (x2, y2), else move on
segNext ==
    IF seg.x = seg.x2 /\ seg.y = seg.y2
    THEN /\ pc' = "done"
         /\ seg' = [seg EXCEPT !.visited = Append(seg.visited, <<seg.x, seg.y>>)]
    ELSE /\ pc' = "walk"
         /\ seg' = segAdvance(seg)

\* one iteration of the loop of drawLine
DrawLineStep ==
    /\ chart = "segment"
    /\ pc = "walk"
    /\ opts.Style # "braille"
    /\ IF ~(InRange(seg.y, Len(grid)) /\ InRange(seg.x, Len(grid[1])))
       THEN /\ pc' = "panic"
            /\ UNCHANGED <<seg, grid, colors>>
       ELSE /\ LET char == getLineChar(seg.x, seg.y, seg.x1, seg.y1, seg.x2, seg.y2,
                                       lineShouldUseUnicode(opts, env))
                   take == grid[seg.y + 1][seg.x + 1] \in {SP, lineHorizontal, asciiHorizontal}
               IN /\ grid' = IF take THEN [grid EXCEPT ![seg.y + 1][seg.x + 1] = char]
                             ELSE grid
                  /\ colors' = IF take THEN [colors EXCEPT ![seg.y + 1][seg.x + 1] = segColor]
                               ELSE colors
            /\ segNext
    /\ UNCHANGED <<linePoints, firstCall, otherChart, themeVar, chart, opts, env, result,
                   dotGrid, colorGrid, seriesIdx>>

\* one iteration of the loop of drawBrailleLine; charWidth and charHeight are the sizes
\* of the color grid
DrawBrailleLineStep ==
    /\ chart = "segment"
    /\ pc = "walk"
    /\ opts.Style = "braille"
    /\ LET inside == InRange(seg.y, Len(dotGrid)) /\ InRange(seg.x, Len(dotGrid[1]))
           charRow == seg.y \div 4
           charCol == seg.x \div 2
           tagged == inside /\ charRow < Len(colorGrid) /\ charCol < Len(colorGrid[1])
       IN /\ dotGrid' = IF inside THEN [dotGrid EXCEPT ![seg.y + 1][seg.x + 1] = TRUE]
                        ELSE dotGrid
          /\ colorGrid' = IF tagged
                          THEN [colorGrid EXCEPT ![charRow + 1][charCol + 1] = segColor]
                          ELSE colorGrid
    /\ segNext
    /\ UNCHANGED <<linePoints, firstCall, otherChart, themeVar, chart, opts, env, result,
                   grid, colors, seriesIdx>>

(***************************************************************************)
(* Spec: all four chart kinds over data that may hold non-finite values    *)
(***************************************************************************)
AnyValues == Floats(1..MaxVal) \cup NonFinite

AnyData == SeqsUpTo(AnyValues, MaxLen)

\* the data of one series of a series list: none, one value, and two values with a
\* non-finite one in either place
AnySeriesData ==
    SeqsUpTo(AnyValues, 1) \cup {<<F(1), F(1)>>, <<F(1), PosInf>>, <<NaN, F(1)>>}

\* two series with a color of their own: one the color map does not know, one it knows
ColoredSeries ==
    <<[Label |-> <<65>>, Data |-> <<F(1), F(1)>>, Color |-> "pink"],
      [Label |-> <<66>>, Data |-> <<F(1)>>, Color |-> "green"]>>

OptionCombos ==
    {[DefaultOptions EXCEPT !.ShowAxes = FALSE, !.ColorEnabled = "false"],
     [DefaultOptions EXCEPT !.Title = <<84>>, !.ColorEnabled = "false"],
     [DefaultOptions EXCEPT !.ShowLegend = TRUE, !.Labels = <<Text(1)>>,
                            !.ColorEnabled = "false"],
     [DefaultOptions EXCEPT !.Title = <<84>>, !.ShowLegend = TRUE, !.ShowValues = TRUE,
                            !.Labels = <<Text(2), Text(1)>>, !.ColorEnabled = "true"]}

AnyInputs ==
    {[Data |-> d, Series |-> << >>] : d \in AnyData}
    \cup {[Data |-> << >>, Series |-> ss] : ss \in SeriesLists(AnySeriesData, MaxSeries)}
    \cup {[Data |-> <<NaN>>, Series |-> ss] : ss \in SeriesLists(AnySeriesData, 1)}
    \cup {[Data |-> << >>, Series |-> ColoredSeries]}

Init ==
    \E kind \in {"bar", "line", "pie", "spark"}, c \in OptionCombos, in \in AnyInputs,
       dir \in {"horizontal", "vertical"}, mode \in {"grouped", "stacked"},
       style \in {"ascii", "unicode", "braille"}, e \in Envs :
        /\ kind \in {"pie", "spark"} => in.Series = << >>
        /\ in.Series # << >> => (c.ShowLegend /\ c.ShowValues)
        /\ kind # "bar" => (dir = "horizontal" /\ mode = "grouped")
        /\ kind # "line" => style = "ascii"
        /\ style = "unicode" => kind = "line" /\ in.Series = << >>
        /\ idle([c EXCEPT !.Data = in.Data, !.Series = in.Series, !.Width = 18, !.Height = 5,
                          !.Direction = dir, !.BarMode = mode, !.Style = style], e, kind)

Next == BarRender \/ PieRender \/ SparkRender \/ LineRender \/ LineDrawSeries \/ LineBuild

Spec == Init /\ [][Next]_vars

(***************************************************************************)
(* SpecBar: bar charts over finite data                                    *)
(***************************************************************************)
Nums(s) == [i \in 1..Len(s) |-> F(s[i])]

BarValues == Floats((-2)..MaxBarVal)

BarData ==
    SeqsFrom(BarValues, 1, MaxBarLen)
    \cup {Nums(<<10, 20>>), Nums(<<-1, 0, 3>>), Nums(<<10, 25, 15, 30>>)}

MultiValues == Floats((-1)..MaxMultiVal)

\* the number of values of the first i series of lengths sh
RECURSIVE Offset(_, _)
Offset(sh, i) == IF i = 0 THEN 0 ELSE sh[i] + Offset(sh, i - 1)

\* the lengths of the series of a list
Shapes == {sh \in SeqsFrom(0..MaxCat, 1, MaxSeries) : Offset(sh, Len(sh)) <= MaxBars}

\* the series list of lengths sh holding the values v in order
Sliced(sh, v) ==
    [i \in 1..Len(sh) |->
        MkSeries(<<64 + i>>, SubSeq(v, Offset(sh, i - 1) + 1, Offset(sh, i)))]

\* series lists of at most MaxSeries series of at most MaxCat values each, MaxBars
\* values in all, and the examples of the documentation
BarSeries ==
    UNION {{Sliced(sh, v) : v \in [1..Offset(sh, Len(sh)) -> MultiValues]} : sh \in Shapes}
    \cup {<<MkSeries(<<65>>, Nums(<<10, 20, 30>>)), MkSeries(<<66>>, Nums(<<5, 10, 15>>))>>,
          <<MkSeries(<<65>>, Nums(<<10, 20>>)), MkSeries(<<66>>, Nums(<<5, 10>>))>>,
          <<MkSeries(<<65>>, Nums(<<1>>)), MkSeries(<<66>>, Nums(<<1, 2>>))>>,
          <<MkSeries(<<65>>, Nums(<<2, -1>>)), MkSeries(<<66>>, Nums(<<-2, -1>>))>>,
          <<MkSeries(<<65>>, Nums(<<2>>)), MkSeries(<<66>>, Nums(<<-1>>)),
            MkSeries(<<67>>, Nums(<<1>>))>>}

SingleBarCombos ==
    {[DefaultOptions EXCEPT !.ShowAxes = FALSE, !.ColorEnabled = "false", !.Style = "ascii"],
     [DefaultOptions EXCEPT !.ShowAxes = FALSE, !.ShowValues = TRUE,
                            !.ColorEnabled = "false", !.Style = "unicode"],
     [DefaultOptions EXCEPT !.Labels = <<Text(2)>>, !.Title = <<84>>,
                            !.ColorEnabled = "true", !.Style = "ascii"]}

\* <<Width, Height>> pairs: bar areas of 1, 2 and 3 columns, the 20-column fallback and
\* the default 80 columns; 3, 4 and 5 rows, the 10-row fallback and the default 24 rows
BarDims == {<<3, 3>>, <<4, 4>>, <<5, 5>>, <<0, 2>>, <<80, 24>>}

InitBar ==
    \E c \in SingleBarCombos, dim \in BarDims, dir \in {"horizontal", "vertical"},
       d \in BarData, e \in Envs :
        idle([c EXCEPT !.Data = d, !.Width = dim[1], !.Height = dim[2], !.Direction = dir],
             e, "bar")

NextBar == BarRender

SpecBar == InitBar /\ [][NextBar]_vars

(***************************************************************************)
(* SpecMulti: multi-series bar charts over finite data                     *)
(***************************************************************************)
\* color is on: the color of a glyph tells the series it belongs to. The first chart
\* has a bar area of 10 columns or 5 rows, the second one a label column, a title and a
\* legend and the fallback bar area of 20 columns or 10 rows
MultiBarCombos ==
    {[DefaultOptions EXCEPT !.ShowAxes = FALSE, !.ColorEnabled = "true", !.Style = "ascii",
                            !.Width = 12, !.Height = 5],
     [DefaultOptions EXCEPT !.Labels = <<Text(1)>>, !.Title = <<84>>, !.ShowLegend = TRUE,
                            !.ColorEnabled = "true", !.Style = "unicode",
                            !.Width = 0, !.Height = 2]}

InitMulti ==
    \E c \in MultiBarCombos, dir \in {"horizontal", "vertical"},
       mode \in {"grouped", "stacked"}, ss \in BarSeries, e \in Envs :
        idle([c EXCEPT !.Series = ss, !.Direction = dir, !.BarMode = mode], e, "bar")

NextMulti == BarRender

SpecMulti == InitMulti /\ [][NextMulti]_vars

(***************************************************************************)
(* SpecLine: line charts over finite data                                  *)
(***************************************************************************)
LineValues == Floats((-1)..MaxLineVal)

LineData ==
    SeqsFrom(LineValues, 1, MaxLineLen) \cup {Nums(<<0, 2, 1>>), Nums(<<5, 5, 5, 5>>)}

\* series that meet: a point under a later flat line, a flat line under a later point,
\* a flat line under a later line that runs along it and then rises
CrossingSeries ==
    {<<MkSeries(<<65>>, Nums(<<1>>)), MkSeries(<<66>>, Nums(<<1, 1>>))>>,
     <<MkSeries(<<65>>, Nums(<<1, 1>>)), MkSeries(<<66>>, Nums(<<1>>))>>,
     <<MkSeries(<<65>>, Nums(<<0, 0>>)), MkSeries(<<66>>, Nums(<<0, 0, 1>>))>>}

\* series lists: each series is empty, one point, a rising or a falling line
LineSeries ==
    SeriesLists({<< >>, Nums(<<0>>), Nums(<<0, 1>>), Nums(<<1, 0>>)}, MaxSeries)
    \cup CrossingSeries

\* Braille charts without axes and title: 10 x 3 and 11 x 4 cells as configured, the
\* fallback height of 10 for Height 2, and one chart with color
BrailleBareCombos ==
    {[DefaultOptions EXCEPT !.Style = "braille", !.ShowAxes = FALSE, !.ColorEnabled = "false",
                            !.Width = dim[1], !.Height = dim[2]] :
        dim \in {<<10, 3>>, <<11, 4>>, <<10, 2>>}}
    \cup {[DefaultOptions EXCEPT !.Style = "braille", !.ShowAxes = FALSE,
                                 !.ColorEnabled = "true", !.Width = 10, !.Height = 3]}

\* a Braille chart of Width 9, drawn 60 cells wide; it is given one-point series
NarrowCombo ==
    [DefaultOptions EXCEPT !.Style = "braille", !.ShowAxes = FALSE, !.ColorEnabled = "false",
                           !.Width = 9, !.Height = 3]

\* character charts without axes: grids of 10 x 3 and 11 x 4 cells
CharBareCombos ==
    {[DefaultOptions EXCEPT !.Style = st, !.ShowAxes = FALSE, !.ColorEnabled = "false",
                            !.Width = dim[1], !.Height = dim[2]] :
        st \in {"ascii", "unicode"}, dim \in {<<10, 3>>, <<11, 4>>}}

\* X axis labels: none, one, two, and one that is longer than the 10 columns of the chart
LabelSets == {<< >>, <<Text(2)>>, <<Text(2), Text(1)>>, <<Text(11)>>}

\* charts with axes: a grid of 10 x 3 cells on 18 x 5, and a titled Braille chart
AxesCombos ==
    {[DefaultOptions EXCEPT !.Style = st, !.Labels = ls, !.ColorEnabled = "false",
                            !.Width = 18, !.Height = 5] :
        st \in {"ascii", "unicode"}, ls \in LabelSets}
    \cup {[DefaultOptions EXCEPT !.Style = "braille", !.Title = <<84>>, !.Labels = <<Text(2)>>,
                                 !.ColorEnabled = "true", !.Width = 19, !.Height = 7]}

InitLine ==
    \E e \in Envs :
        \/ \E c \in BrailleBareCombos \cup CharBareCombos \cup AxesCombos :
              \/ \E d \in LineData : idle([c EXCEPT !.Data = d], e, "line")
              \/ \E ss \in LineSeries : idle([c EXCEPT !.Series = ss], e, "line")
        \/ \E d \in SeqsFrom(LineValues, 1, 1) : idle([NarrowCombo EXCEPT !.Data = d], e, "line")

NextLine == LineRender \/ LineDrawSeries \/ LineBuild

SpecLine == InitLine /\ [][NextLine]_vars

(***************************************************************************)
(* SpecPie: pie charts over finite data                                    *)
(***************************************************************************)
PieValues == Floats((-1)..MaxPieVal)

\* up to MaxPieLen values, the ten slices of TestPieChart_ManySlices, and fourteen
\* slices, one more than the pie has rows
PieData ==
    SeqsUpTo(PieValues, MaxPieLen)
    \cup {[i \in 1..10 |-> F(10)], [i \in 1..14 |-> F(1)], Nums(<<2, 0, 1, 1>>),
          Nums(<<-1, 1, 2>>), Nums(<<1, 1, 2>>), Nums(<<2, 1, 1>>)}

PieCombos ==
    {[DefaultOptions EXCEPT !.ColorEnabled = "false", !.Style = "ascii"],
     [DefaultOptions EXCEPT !.ColorEnabled = "false", !.Style = "unicode",
                            !.ShowValues = TRUE, !.Labels = <<Text(2)>>],
     [DefaultOptions EXCEPT !.ColorEnabled = "true", !.Style = "unicode",
                            !.Title = <<84>>, !.Labels = <<Text(1), << >>, Text(9)>>]}

InitPie == \E c \in PieCombos, d \in PieData, e \in Envs : idle([c EXCEPT !.Data = d], e, "pie")

NextPie == PieRender

SpecPie == InitPie /\ [][NextPie]_vars

(***************************************************************************)
(* SpecSpark: sparklines over finite data                                  *)
(***************************************************************************)
SparkValues == Floats((-1)..MaxSparkVal)

\* up to MaxSparkLen values, the documented example, and 30 values that cycle through
\* the 8 levels
SparkData ==
    SeqsUpTo(SparkValues, MaxSparkLen)
    \cup {Nums(<<1, 5, 2, 8, 3, 7, 4, 6>>), [i \in 1..30 |-> F((i - 1) % 8)]}

\* unlimited, 2 glyphs, 22 glyphs
SparkWidths == {0, 2, 22}

SparkCombos ==
    {[DefaultOptions EXCEPT !.ColorEnabled = "false", !.Style = "ascii"],
     [DefaultOptions EXCEPT !.ColorEnabled = "false", !.Style = "unicode"],
     [DefaultOptions EXCEPT !.ColorEnabled = "true", !.Style = "auto"]}

InitSpark ==
    \E c \in SparkCombos, d \in SparkData, w \in SparkWidths, e \in Envs :
        idle([c EXCEPT !.Data = d, !.Width = w], e, "spark")

NextSpark == SparkRender

SpecSpark == InitSpark /\ [][NextSpark]_vars

(***************************************************************************)
(* SpecNorm: internal.Normalize over finite data                           *)
(***************************************************************************)
NormValues == Floats((-2)..MaxNormVal)

\* up to MaxNormLen values and the inputs of TestNormalize
NormData ==
    SeqsUpTo(NormValues, MaxNormLen)
    \cup {Nums(<<0, 5, 10>>), Nums(<<-10, 0, 10>>), Nums(<<5, 5, 5, 5>>), Nums(<<42>>)}

InitNorm == \E d \in NormData, e \in Envs : idle([DefaultOptions EXCEPT !.Data = d], e, "normalize")

NextNorm == NormalizeCall

SpecNorm == InitNorm /\ [][NextNorm]_vars

(***************************************************************************)
(* SpecTwice: two Render calls on one chart, another chart rendered at any *)
(* time in between                                                         *)
(***************************************************************************)
TwiceData == SeqsFrom(Floats(0..MaxVal), 1, MaxLen)

\* style and color are set explicitly
TwiceCombos ==
    {[DefaultOptions EXCEPT !.ColorEnabled = "false", !.Style = "ascii", !.ShowAxes = FALSE,
                            !.Width = 10, !.Height = 3],
     [DefaultOptions EXCEPT !.ColorEnabled = "true", !.Style = "unicode", !.Title = <<84>>,
                            !.Labels = <<Text(1)>>, !.Width = 18, !.Height = 6]}

\* <<kind, Direction, Style or "" for the one of the combination>>
TwiceKinds ==
    {<<"bar", "horizontal", "">>, <<"bar", "vertical", "">>, <<"line", "horizontal", "">>,
     <<"line", "horizontal", "braille">>, <<"pie", "horizontal", "">>,
     <<"spark", "horizontal", "">>}

OtherCharts ==
    {[kind |-> k, pc |-> "start", result |-> << >>,
      opts |-> [DefaultOptions EXCEPT !.Data = Nums(<<2, 1>>), !.ColorEnabled = "true",
                                      !.Style = "unicode", !.Width = 10, !.Height = 3]] :
        k \in {"bar", "pie", "spark"}}

InitTwice ==
    \E c \in TwiceCombos, k \in TwiceKinds, d \in TwiceData, oth \in OtherCharts, e \in Envs :
        /\ firstCall = NoCall
        /\ otherChart = oth
        /\ themeVar = DefaultTheme
        /\ linePoints = << >>
        /\ seg = NoSegment
        /\ chart = k[1]
        /\ opts = [c EXCEPT !.Data = d, !.Direction = k[2],
                            !.Style = IF k[3] = "" THEN c.Style ELSE k[3]]
        /\ env = e
        /\ pc = "start"
        /\ result = << >>
        /\ grid = << >>
        /\ colors = << >>
        /\ dotGrid = << >>
        /\ colorGrid = << >>
        /\ seriesIdx = 0

NextTwice ==
    \/ BarRender \/ PieRender \/ SparkRender \/ LineRender \/ LineDrawSeries \/ LineBuild
    \/ RenderAgain \/ RenderOther

SpecTwice == InitTwice /\ [][NextTwice]_vars

(***************************************************************************)
(* SpecSeg: one drawLine / drawBrailleLine call between two points of the  *)
(* grid, on a blank grid or on a grid that holds a series drawn before     *)
(***************************************************************************)
SegPoints == (0..MaxSegX) \X (0..MaxSegY)

\* the character grids of MaxSegX + 1 columns and MaxSegY + 1 rows: blank, with a series
\* that falls and rises, and with a flat series on the bottom row
SegRasters(useUnicode) ==
    LET blank == blankRaster(MaxSegX + 1, MaxSegY + 1)
    IN {blank,
        renderSeriesASCII(blank, Nums(<<1, 0, 1>>), MaxSegX + 1, MaxSegY + 1, 0, 1,
                          useUnicode, "blue"),
        renderSeriesASCII(blank, Nums(<<0, 0>>), MaxSegX + 1, MaxSegY + 1, 0, 1,
                          useUnicode, "blue")}

\* the dot grids that hold the points: blank, and with a rising series
SegDots ==
    LET cw == (MaxSegX + 2) \div 2
        ch == (MaxSegY + 4) \div 4
    IN {blankDots(cw, ch),
        renderSeriesBraille(blankDots(cw, ch), Nums(<<0, 1>>), 2 * cw, 4 * ch, cw, ch, 0, 1,
                            "blue")}

segIdle(style, e, p, q) ==
    /\ firstCall = NoCall
    /\ otherChart = NoChart
    /\ themeVar = DefaultTheme
    /\ linePoints = << >>
    /\ seg = [NoSegment EXCEPT !.x1 = p[1], !.y1 = p[2], !.x2 = q[1], !.y2 = q[2]]
    /\ chart = "segment"
    /\ opts = [DefaultOptions EXCEPT !.Style = style]
    /\ env = e
    /\ pc = "start"
    /\ result = << >>
    /\ seriesIdx = 0

InitSeg ==
    \E p \in SegPoints, q \in SegPoints, e \in Envs :
        \/ \E style \in {"ascii", "unicode"} :
              \E rs \in SegRasters(style = "unicode") :
                 /\ segIdle(style, e, p, q)
                 /\ grid = rs.grid
                 /\ colors = rs.colors
                 /\ dotGrid = << >>
                 /\ colorGrid = << >>
        \/ \E bs \in SegDots :
              /\ segIdle("braille", e, p, q)
              /\ grid = << >>
              /\ colors = << >>
              /\ dotGrid = bs.dots
              /\ colorGrid = bs.colors

NextSeg == SegCall \/ DrawLineStep \/ DrawBrailleLineStep

SpecSeg == InitSeg /\ [][NextSeg]_vars

\* every loop iteration that can be taken is taken
SpecSegFair == SpecSeg /\ WF_vars(NextSeg)

(***************************************************************************)
(* Reading a rendered string                                               *)
(***************************************************************************)
\* the lines of a string: the pieces ended by NL, and the rest when it is not empty
Lines(s) ==
    LET \* the positions of the NLs, in order
        nl == SelectSeq([i \in 1..Len(s) |-> i], LAMBDA i : s[i] = NL)
        n == Len(nl)
        from(k) == IF k = 1 THEN 1 ELSE nl[k - 1] + 1
        tail == IF n = 0 THEN s ELSE SubSeq(s, nl[n] + 1, Len(s))
    IN [k \in 1..n |-> SubSeq(s, from(k), nl[k] - 1)]
       \o (IF tail = << >> THEN << >> ELSE <<tail>>)

\* s without its ANSI sequences (ESC ... 'm', at most 5 runes long)
StripAnsi(s) ==
    LET inEsc(i) == \E e \in (IF i > 4 THEN i - 4 ELSE 1)..i :
                        s[e] = ESC /\ \A j \in (e + 1)..(i - 1) : s[j] # 109
        kept == SelectSeq([i \in 1..Len(s) |-> <<i, s[i]>>], LAMBDA q : ~inEsc(q[1]))
    IN [i \in 1..Len(kept) |-> kept[i][2]]

CountRune(s, r) == Cardinality({i \in 1..Len(s) : s[i] = r})

\* number of places where the sequence pat starts in s
CountSeq(s, pat) ==
    Cardinality({i \in 1..(Len(s) - Len(pat) + 1) : SubSeq(s, i, i + Len(pat) - 1) = pat})

SetMax(S) == CHOOSE m \in S : \A x \in S : x <= m

barGlyph == IF shouldUseUnicode(opts, env) THEN fullBlock ELSE barCharASCII

titleRows == IF opts.Title # << >> THEN 1 ELSE 0

singleBarDone == chart = "bar" /\ pc = "done" /\ Len(opts.Series) = 0 /\ Len(opts.Data) > 0

multiBarDone == chart = "bar" /\ pc = "done" /\ Len(opts.Series) > 0

\* E: the extent of the bar area of a single-series chart
singleExtent ==
    IF opts.Direction = "horizontal" THEN horizontalBarWidth(opts) ELSE verticalBarHeight(opts)

\* the lines of the output without ANSI sequences
plainLines(s) == LET ls == Lines(s) IN [k \in 1..Len(ls) |-> StripAnsi(ls[k])]

\* the number of bar glyphs drawn for each bar of a single-series chart, read off the output
singleRuns ==
    LET ls == plainLines(result)
    IN [i \in 1..Len(opts.Data) |->
          IF opts.Direction = "horizontal" THEN CountRune(ls[titleRows + i], barGlyph)
          ELSE Cardinality({k \in 1..verticalBarHeight(opts) :
                              ls[titleRows + k][4 * (i - 1) + 1] = barGlyph})]

singleRun(i) == singleRuns[i]

\* the maximum of the series, with 0 replaced by 1
seriesMaxOr1 ==
    LET m == SetMax({opts.Data[i].n : i \in 1..Len(opts.Data)}) IN IF m = 0 THEN 1 ELSE m

(***************************************************************************)
(* Claims on input validation (Spec)                                       *)
(***************************************************************************)
\* the series a Render call of the given chart draws
renderedSeries ==
    IF chart \in {"bar", "line"} /\ Len(opts.Series) > 0
    THEN [i \in 1..Len(opts.Series) |-> opts.Series[i].Data]
    ELSE <<opts.Data>>

hasNonFinite ==
    \E i \in 1..Len(renderedSeries) :
        \E j \in 1..Len(renderedSeries[i]) : renderedSeries[i][j] \in NonFinite

noDataPoint == \A i \in 1..Len(renderedSeries) : Len(renderedSeries[i]) = 0

\* C1: for every chart kind, when any value of any rendered series is NaN, +Inf or -Inf
\* the Render call ends at once with the empty string: no grid is drawn, nothing is output.
C1_NonFiniteVoidsRender ==
    hasNonFinite => /\ pc \in {"start", "done"}
                    /\ result = << >>
                    /\ grid = << >> /\ dotGrid = << >>

\* C1 witness: a finished multi-series line chart whose only non-finite value is the
\* last value of the last series
C1_Witness ==
    /\ pc = "done" /\ chart = "line" /\ result = << >>
    /\ Len(opts.Series) = 2
    /\ opts.Series[1].Data = <<F(1), F(1)>>
    /\ opts.Series[2].Data = <<F(1), PosInf>>
    /\ opts.Title # << >> /\ opts.ShowLegend

\* C2 as stated: a finished Render call over an input without any data point has
\* returned the empty string, for every chart kind and every option.
C2_EmptyInputEmptyOutput == (pc = "done" /\ noDataPoint) => result = << >>

(***************************************************************************)
(* Claims on bar geometry (SpecBar)                                        *)
(***************************************************************************)
\* floor(a / b) for any b # 0
Floor(a, b) == IF b > 0 THEN FloorDiv(a, b) ELSE FloorDiv(-a, -b)

horizontalSingleDone == singleBarDone /\ opts.Direction = "horizontal"

barsMonotone ==
    LET drawn == {<<opts.Data[i].n, singleRuns[i]>> : i \in 1..Len(opts.Data)}
    IN \A p \in drawn : \A q \in drawn : p[1] <= q[1] => p[2] <= q[2]

\* C7 as stated: bar length is monotone in the value, and for data [10, 20] both glyph
\* runs are non-empty
C7_MonotoneAndNonEmpty ==
    horizontalSingleDone =>
        /\ barsMonotone
        /\ opts.Data = Nums(<<10, 20>>) => (singleRun(1) > 0 /\ singleRun(2) > 0)

\* C7 amended: bar length is monotone non-decreasing in the value, and for data [10, 20]
\* both glyph runs are non-empty when the bar area is at least 2 columns wide.
C7_MonotoneNonEmptyFromWidth2 ==
    horizontalSingleDone =>
        /\ barsMonotone
        /\ (opts.Data = Nums(<<10, 20>>) /\ horizontalBarWidth(opts) >= 2)
              => (singleRun(1) > 0 /\ singleRun(2) > 0)

\* C7 witness: data [10, 20] rendered on the default 80 columns: a run of 39 and one of 78
C7_Witness ==
    /\ horizontalSingleDone /\ opts.Data = Nums(<<10, 20>>)
    /\ opts.Width = 80 /\ ~opts.ShowAxes /\ ~opts.ShowValues
    /\ singleRun(1) = 39 /\ singleRun(2) = 78

\* C8 as stated: the bar of every negative value has length 0
C8_NegativeIsZero ==
    singleBarDone =>
        \A i \in 1..Len(opts.Data) : opts.Data[i].n < 0 => singleRuns[i] = 0

\* the kinds of the ANSI sequences of a string, in order: "open" for an opening
\* sequence of the color map, "reset" for the reset sequence, "other" for any other ESC
ansiKinds(s) ==
    LET esc == SelectSeq([i \in 1..Len(s) |-> i], LAMBDA i : s[i] = ESC)
        at(p, code) == p + Len(code) - 1 <= Len(s) /\ SubSeq(s, p, p + Len(code) - 1) = code
    IN [k \in 1..Len(esc) |->
          IF at(esc[k], colorReset) THEN "reset"
          ELSE IF \E c \in DOMAIN colorMap : at(esc[k], colorMap[c]) THEN "open"
          ELSE "other"]

\* every opening sequence is followed by one reset before the next opening sequence
wellPaired(s) ==
    LET kinds == ansiKinds(s)
    IN /\ Len(kinds) % 2 = 0
       /\ \A k \in 1..Len(kinds) : kinds[k] = (IF k % 2 = 1 THEN "open" ELSE "reset")

\* C17: Colorize returns the text unchanged when color is disabled, the color name is
\* empty or not in the color map, and open-code + text + reset otherwise; in every
\* rendered output every opening sequence is followed by exactly one reset before the
\* next opening sequence, and with color disabled the output has no escape sequence.
C17_ColorizePairs ==
    /\ \A text \in {<< >>, Text(1), Text(2)}, enabled \in BOOLEAN,
          color \in {"", "pink", "red", "brown", "gray", "grey", "orange", "white"} :
            Colorize(text, color, enabled) =
                IF enabled /\ color \notin {"", "pink"}
                THEN colorMap[color] \o text \o <<ESC, 91, 48, 109>>
                ELSE text
    /\ (pc = "done" /\ chart \in {"bar", "line", "pie", "spark"}) =>
          /\ wellPaired(result)
          /\ ~isColorEnabled(opts, env) => CountRune(result, ESC) = 0

\* C17 witness: a chart has been rendered with color enabled and series colors "pink"
\* and "green": its output has opening sequences, all of them paired with a reset
C17_Witness ==
    /\ pc = "done" /\ chart = "line" /\ isColorEnabled(opts, env)
    /\ opts.Series = ColoredSeries
    /\ CountSeq(result, colorMap["green"]) > 0
    /\ CountSeq(result, colorMap["gray"]) > 0
    /\ CountRune(result, ESC) = 2 * CountSeq(result, colorReset)

(***************************************************************************)
(* Claims on multi-series bar charts (SpecMulti)                           *)
(***************************************************************************)
groupedDone == multiBarDone /\ opts.BarMode = "grouped"

stackedDone == multiBarDone /\ opts.BarMode = "stacked"

\* the bars of a multi-series chart: <<series, category>> pairs that have a value
barsOf == {b \in (1..Len(opts.Series)) \X (1..numCategoriesOf(opts.Series)) :
             b[2] <= Len(opts.Series[b[1]].Data)}

\* E: the extent one bar of a grouped chart can span
groupedExtent ==
    IF opts.Direction = "horizontal" THEN multiBarWidth(opts) \div Len(opts.Series)
    ELSE multiBarHeight(opts)

\* the number of glyphs drawn for each bar of a grouped chart, read off the output: in a
\* horizontal chart the glyphs of the category's line that carry the series' color, in
\* a vertical chart the glyphs in the first column of the bar
groupedRuns ==
    LET raw == Lines(result)
        ls == plainLines(result)
        n == Len(opts.Series)
    IN [b \in barsOf |->
          IF opts.Direction = "horizontal"
          THEN CountSeq(raw[titleRows + b[2]],
                        colorMap[seriesColor(opts, b[1])] \o <<barGlyph>>)
          ELSE Cardinality({k \in 1..multiBarHeight(opts) :
                              ls[titleRows + k][(b[2] - 1) * (3 * n + 2) + 3 * (b[1] - 1) + 1]
                                  = barGlyph})]

barValue(b) == opts.Series[b[1]].Data[b[2]].n

\* C9: in a grouped chart two bars with equal values have equal length, whatever their
\* series and category, and a bar holding the positive maximum of all values of all
\* series spans the whole extent; in horizontal and in vertical orientation.
C9_GroupedGlobalScale ==
    groupedDone =>
        LET \* <<value, length>> of every bar
            drawn == {<<barValue(b), groupedRuns[b]>> : b \in barsOf}
            globalMax == SetMax({barValue(b) : b \in barsOf} \cup {0})
        IN \A p \in drawn :
              /\ \A q \in drawn : p[1] = q[1] => p[2] = q[2]
              /\ (p[1] = globalMax /\ globalMax > 0) => p[2] = groupedExtent

\* C9 witness: series A = [1] and B = [1, 2] on 12 columns, 5 for each bar: both bars of
\* value 1 are 2 glyphs long although 1 is the maximum of series A, the bar of value 2
\* is 5 long
C9_Witness ==
    /\ groupedDone /\ opts.Direction = "horizontal" /\ opts.Width = 12
    /\ Len(opts.Series) = 2
    /\ opts.Series[1].Data = <<F(1)>> /\ opts.Series[2].Data = <<F(1), F(2)>>
    /\ groupedRuns[<<1, 1>>] = 2 /\ groupedRuns[<<2, 1>>] = 2 /\ groupedRuns[<<2, 2>>] = 5

\* the per-category sums of all series, a missing value counting as 0
categorySums ==
    {categorySum(opts.Series, cat, 1) : cat \in 1..numCategoriesOf(opts.Series)}

\* C10 as stated: the scaling maximum of a stacked chart is the maximum of the
\* per-category sums
C10_StackedMaxIsMaxSum ==
    (stackedDone /\ categorySums # {}) =>
        calculateMaxValue(opts, opts.Series) = SetMax(categorySums)

\* C10 amended: the scaling maximum of a stacked chart is the maximum of the
\* per-category sums, and 0 when no per-category sum is positive; A = [10, 20, 30],
\* B = [5, 10, 15] gives 45.
C10_StackedMaxIsMaxSumOrZero ==
    stackedDone =>
        /\ calculateMaxValue(opts, opts.Series) = SetMax(categorySums \cup {0})
        /\ (/\ Len(opts.Series) = 2
            /\ opts.Series[1].Data = Nums(<<10, 20, 30>>)
            /\ opts.Series[2].Data = Nums(<<5, 10, 15>>))
               => calculateMaxValue(opts, opts.Series) = 45

\* C10 witness: the stacked chart of A = [10, 20, 30], B = [5, 10, 15] has been rendered
\* and its largest stack, 30 + 15 of 45, fills the 10 rows of the third column
C10_Witness ==
    /\ stackedDone /\ opts.Direction = "vertical" /\ opts.Height = 2
    /\ opts.Series[1].Data = Nums(<<10, 20, 30>>)
    /\ Len(opts.Series) = 2 /\ opts.Series[2].Data = Nums(<<5, 10, 15>>)
    /\ stackedHeights(opts, 3, 2) = 10
    /\ \A k \in 1..10 : plainLines(result)[titleRows + k][9] = barGlyph

\* the visible runes of a line, each with the ANSI opening sequence right before it
\* (<< >> when there is none)
coloredRunes(line) ==
    LET inEsc(i) == \E e \in (IF i > 4 THEN i - 4 ELSE 1)..i :
                        line[e] = ESC /\ \A j \in (e + 1)..(i - 1) : line[j] # 109
        kept == SelectSeq([i \in 1..Len(line) |-> i], LAMBDA i : ~inEsc(i))
    IN [k \in 1..Len(kept) |->
          <<line[kept[k]],
            IF kept[k] > 5 /\ line[kept[k] - 5] = ESC
            THEN SubSeq(line, kept[k] - 5, kept[k] - 1) ELSE << >>>>]

verticalStackedDone == stackedDone /\ opts.Direction = "vertical" /\ result # << >>

\* the first cell of the column of category cat in each of the rows of a vertical stacked
\* chart, top row first, read off the output
stackedColumn(cat) ==
    LET raw == Lines(result)
    IN [k \in 1..multiBarHeight(opts) |-> coloredRunes(raw[titleRows + k])[4 * (cat - 1) + 1]]

\* the rows (1 is the top one) in which the column of category cat is filled
filledRows(cat) ==
    LET col == stackedColumn(cat) IN {k \in 1..Len(col) : col[k][1] = barGlyph}

\* the series (1-based) whose color the topmost filled cell of the column carries; 0 when
\* the column is empty
topSeries(cat) ==
    LET col == stackedColumn(cat)
        rows == filledRows(cat)
    IN IF rows = {} THEN 0
       ELSE LET top == CHOOSE k \in rows : \A j \in rows : k <= j
            IN CHOOSE i \in 1..Len(opts.Series) :
                   colorMap[seriesColor(opts, i)] = col[top][2]

\* the categories in which every series has a positive value
positiveCategories ==
    {cat \in 1..numCategoriesOf(opts.Series) :
        \A i \in 1..Len(opts.Series) :
            cat <= Len(opts.Series[i].Data) /\ opts.Series[i].Data[cat].n > 0}

C18_AtMostHeightLines ==
    (/\ pc = "done" /\ opts.Height >= 1
     /\ chart = "line" \/ (chart = "bar" /\ opts.Direction = "vertical"))
        => Len(Lines(result)) <= opts.Height

pieDone == chart = "pie" /\ pc = "done"

RECURSIVE SumSeq(_)
SumSeq(q) == IF q = << >> THEN 0 ELSE q[1] + SumSeq(Tail(q))

\* T: the sum of the positive values of the data
positiveTotal ==
    SumSeq([i \in 1..Len(opts.Data) |-> IF opts.Data[i].n > 0 THEN opts.Data[i].n ELSE 0])

\* C12: the slices of a pie chart: a value <= 0 has percentage 0, a value v > 0 has
\* 100 * v / T with T the sum of the positive values, the percentages sum to 100, and
\* when T = 0 there are no slices and Render returns the empty string.
C12_PiePercentages ==
    pieDone =>
        LET T == positiveTotal
            slices == calculateSlices(opts)
            \* the percentage of slice i times T
            scaled(i) == (slices[i].Percentage[1] * T) \div slices[i].Percentage[2]
        IN IF T = 0 THEN slices = << >> /\ result = << >>
           ELSE /\ result # << >>
                /\ Len(slices) = Len(opts.Data)
                /\ \A i \in 1..Len(slices) :
                      /\ slices[i].Value = opts.Data[i].n
                      /\ slices[i].Percentage[2] \in {1, T}
                      /\ opts.Data[i].n <= 0 => slices[i].Percentage[1] = 0
                      /\ opts.Data[i].n > 0 => scaled(i) = 100 * opts.Data[i].n
                /\ SumSeq([i \in 1..Len(slices) |-> scaled(i)]) = 100 * T

\* C12 witness: the pie of [-1, 1, 2] has been rendered: the percentages are 0, 100/3
\* and 200/3
C12_Witness ==
    /\ pieDone /\ opts.Data = Nums(<<-1, 1, 2>>) /\ result # << >>
    /\ calculateSlices(opts)[1].Percentage = <<0, 1>>
    /\ calculateSlices(opts)[2].Percentage = <<100, 3>>
    /\ calculateSlices(opts)[3].Percentage = <<200, 3>>

\* the rows of the pie in the output, without ANSI sequences and without the title lines
pieRows ==
    LET ls == plainLines(result)
        skip == IF opts.Title # << >> THEN 2 ELSE 0
    IN SubSeq(ls, skip + 1, Len(ls))

\* the rows that carry a legend entry: something follows the 25 cells of the pie and the
\* gap of 3
legendRows == {k \in 1..Len(pieRows) : Len(pieRows[k]) > 2 * pieHalfWidth + 1 + 3}

\* the label printed in the legend entry of row k, of the length of the label of slice i
legendLabel(k, i) ==
    LET from == 2 * pieHalfWidth + 1 + 3 + 2
    IN SubSeq(pieRows[k], from + 1, from + Len(calculateSlices(opts)[i].Label))

\* C13 as stated: a rendered pie has exactly one legend line for every slice, in slice
\* order, to the right of the pie rows and vertically centered on them.
C13_OneLegendLinePerSlice ==
    (pieDone /\ result # << >>) =>
        LET n == Len(opts.Data)
            numRows == 2 * pieRadius + 1
            first == IF n >= numRows THEN 1 ELSE ((numRows - n) \div 2) + 1
        IN /\ Cardinality(legendRows) = n
           /\ legendRows = first..(first + n - 1)
           /\ \A i \in 1..n :
                 legendLabel(first + i - 1, i) = calculateSlices(opts)[i].Label

\* what the code does: the legend entries of the first 13 slices only, one on each of
\* the 13 rows of the pie
legendOfFirstRows ==
    (pieDone /\ result # << >>) =>
        LET n == Len(opts.Data)
            numRows == 2 * pieRadius + 1
            shown == IF n > numRows THEN numRows ELSE n
            first == ((numRows - shown) \div 2) + 1
        IN /\ Len(pieRows) = numRows
           /\ legendRows = first..(first + shown - 1)
           /\ \A i \in 1..shown :
                 legendLabel(first + i - 1, i) = calculateSlices(opts)[i].Label

(***************************************************************************)
(* Claims on sparklines (SpecSpark)                                        *)
(***************************************************************************)
sparkDone == chart = "spark" /\ pc = "done" /\ Len(opts.Data) > 0

SetMin(S) == CHOOSE m \in S : \A x \in S : m <= x

\* the glyph ramp of the chart
sparkRamp ==
    IF opts.Style = "ascii" \/ (opts.Style = "auto" /\ ~env.unicode) THEN sparkCharsASCII
    ELSE sparkChars

\* the levels (0..7) of the glyphs of the output, -1 for a rune that is not in the ramp
sparkLevels ==
    LET glyphs == StripAnsi(result)
    IN [k \in 1..Len(glyphs) |->
          IF \E l \in 1..Len(sparkRamp) : sparkRamp[l] = glyphs[k]
          THEN (CHOOSE l \in 1..Len(sparkRamp) : sparkRamp[l] = glyphs[k]) - 1
          ELSE -1]

\* the level of value v in data of minimum lo and maximum hi
expectedLevel(v, lo, hi) == IF lo = hi THEN 3 ELSE (7 * (v - lo)) \div (hi - lo)

sampledAt(at(_)) ==
    LET n == Len(opts.Data)
        v(k) == opts.Data[k].n
        lo == SetMin({v(k) : k \in 1..n})
        hi == SetMax({v(k) : k \in 1..n})
        levels == sparkLevels
    IN /\ Len(levels) = opts.Width
       /\ at(0) = 0
       /\ \A k \in 0..(opts.Width - 1) :
             /\ at(k) \in 0..(n - 1)
             /\ k > 0 => at(k) > at(k - 1)
             /\ levels[k + 1] = expectedLevel(v(at(k) + 1), lo, hi)

sparkSampled == sparkDone /\ opts.Width > 0 /\ Len(opts.Data) > opts.Width

\* C15 as stated: a sparkline of n values has n glyphs when Width = 0 or n <= Width;
\* otherwise it has Width glyphs, glyph k being the one of data point floor(k * n / Width),
\* with levels against the minimum and maximum of the whole data.
C15_SampledAtFloor ==
    /\ (sparkDone /\ ~sparkSampled /\ opts.Width >= 0)
           => Len(sparkLevels) = Len(opts.Data)
    /\ sparkSampled =>
           LET at(k) == (k * Len(opts.Data)) \div opts.Width IN sampledAt(at)

\* C15 amended: a sparkline of n values has n glyphs when Width = 0 or n <= Width;
\* otherwise it has Width glyphs, glyph k being the one of data point
\* int(float64(k) * (float64(n) / float64(Width))), which is floor(k * n / Width) but
\* for n = 30, Width = 22, k = 11 and n = 30, Width = 26, k = 13, where the float64
\* product is below 15 and the point is 14 (n < 40); the sampled points start at the
\* first one, stay in range and increase strictly, and the levels are against the
\* minimum and maximum of the whole data.
C15_SampledAtFloatIndex ==
    /\ (sparkDone /\ ~sparkSampled /\ opts.Width >= 0)
           => Len(sparkLevels) = Len(opts.Data)
    /\ sparkSampled =>
           LET n == Len(opts.Data)
               W == opts.Width
               at(k) == IF (n = 30 /\ W = 22 /\ k = 11) \/ (n = 30 /\ W = 26 /\ k = 13)
                        THEN 14 ELSE (k * n) \div W
           IN sampledAt(at)

\* C15 witness: 30 values on 22 glyphs: glyph 11 (0-based) is the one of point 14, of
\* value and level 6, and glyph 12 the one of point 16, of level 0
C15_Witness ==
    /\ sparkSampled /\ Len(opts.Data) = 30 /\ opts.Width = 22
    /\ Len(sparkLevels) = 22
    /\ sparkLevels[1] = 0 /\ sparkLevels[12] = 6 /\ sparkLevels[13] = 0

(***************************************************************************)
(* Claims on internal.Normalize (SpecNorm)                                 *)
(***************************************************************************)
\* res is what the claim says Normalize returns for the argument before, and after, the
\* argument once the call has returned, is the same sequence
normalizeOk(before, after, res) ==
    LET n == Len(before)
        v(k) == before[k].n
        lo == SetMin({v(k) : k \in 1..n})
        hi == SetMax({v(k) : k \in 1..n})
        out == res[1]
    IN /\ after = before
       /\ n = 0 => res = <<<< >>, F(0), F(0)>>
       /\ n > 0 =>
             /\ res[2] = F(lo) /\ res[3] = F(hi)
             /\ Len(out) = n
             /\ \A k \in 1..n :
                   /\ out[k][2] > 0
                   /\ 0 <= out[k][1] /\ out[k][1] <= out[k][2]
                   /\ lo = hi => 2 * out[k][1] = out[k][2]
                   /\ lo < hi => out[k][1] * (hi - lo) = (v(k) - lo) * out[k][2]
                   /\ lo < hi /\ v(k) = lo => out[k][1] = 0
                   /\ lo < hi /\ v(k) = hi => out[k][1] = out[k][2]
                   /\ \A j \in 1..n :
                         (lo < hi /\ v(j) < v(k))
                             => out[j][1] * out[k][2] < out[k][1] * out[j][2]

\* C16: Normalize returns ([], 0, 0) for empty input; when all values are equal every
\* output element is 0.5 and min = max = that value; otherwise output k is
\* (v_k - min) / (max - min), in [0, 1], 0 for the minimum, 1 for the maximum and in the
\* order of the values; the call leaves its argument as it was.
C16_Normalize == [][NormalizeCall => normalizeOk(opts.Data, opts'.Data, result')]_vars

\* C16 witness: Normalize([0, 5, 10]) has returned ([0, 0.5, 1], 0, 10)
C16_Witness ==
    /\ chart = "normalize" /\ pc = "done" /\ opts.Data = Nums(<<0, 5, 10>>)
    /\ result = <<<<<<0, 10>>, <<5, 10>>, <<10, 10>>>>, F(0), F(10)>>

(***************************************************************************)
(* Claims on line charts (SpecLine)                                        *)
(***************************************************************************)
\* C3 as stated: a Render call over finite values never uses an index outside the
\* character grid, the dot grid, the color grid or the X-axis label buffer.
C3_NoIndexOutOfRange == pc # "panic"

lineDone == chart = "line" /\ pc = "done" /\ result # << >>

\* a finished chart of one series of two or more values that are all equal
flatLineDone ==
    /\ lineDone /\ Len(opts.Series) = 0 /\ Len(opts.Data) >= 2
    /\ \A i \in 1..Len(opts.Data) : opts.Data[i] = opts.Data[1]

\* the 0-based rows of a grid that hold a cell other than blank
usedRows(g, blank) == {r \in 0..(Len(g) - 1) : \E c \in 1..Len(g[r + 1]) : g[r + 1][c] # blank}

\* the middle rows of a grid of n rows (two of them when n is even)
middleRows(n) == {(n - 1) \div 2, n \div 2}

\* C4 as stated: a flat series is drawn as one full row at mid-height: in Braille mode
\* one dot row, a middle one, set from the first to the last dot column; in character
\* mode the line lies in a middle row of the grid.
C4_FlatLineAtMidHeight ==
    flatLineDone =>
        IF opts.Style = "braille"
        THEN /\ Cardinality(usedRows(dotGrid, FALSE)) = 1
             /\ usedRows(dotGrid, FALSE) \subseteq middleRows(Len(dotGrid))
             /\ \A r \in usedRows(dotGrid, FALSE) :
                   \A c \in 1..Len(dotGrid[r + 1]) : dotGrid[r + 1][c]
        ELSE /\ usedRows(grid, SP) # {}
             /\ usedRows(grid, SP) \subseteq middleRows(Len(grid))

\* a finished Braille chart of one series without axes and title
brailleBareDone ==
    /\ lineDone /\ opts.Style = "braille" /\ Len(opts.Series) = 0
    /\ ~opts.ShowAxes /\ opts.Title = << >>

\* the output is h lines of w runes, all of them Braille patterns
brailleBlock(w, h) ==
    LET ls == Lines(result)
    IN /\ Len(ls) = h
       /\ \A k \in 1..Len(ls) :
             /\ Len(ls[k]) = w
             /\ \A i \in 1..Len(ls[k]) : ls[k][i] \in brailleBase..(brailleBase + 255)

RoundDiv(a, b) == (2 * a + b) \div (2 * b)

\* one more series has been drawn on the grid
seriesDrawn == chart = "line" /\ pc = "draw" /\ seriesIdx >= 1

\* width and height of the grid the points are mapped to: cells, or dots in Braille mode
lineGridWidth ==
    IF opts.Style = "braille" THEN lineChartWidth(opts) * 2 ELSE lineChartWidth(opts)

lineGridHeight ==
    IF opts.Style = "braille" THEN lineChartHeight(opts) * 4 ELSE lineChartHeight(opts)

\* the values of all series of the chart
lineValues ==
    UNION {{getAllSeries(opts)[s].Data[i].n : i \in 1..Len(getAllSeries(opts)[s].Data)} :
             s \in 1..Len(getAllSeries(opts))}

lineMin == SetMin(lineValues)

lineMax == SetMax(lineValues)

\* the grid shows a data point at column x of row y: the point marker in character
\* mode, a set dot in Braille mode
pointDrawnAt(x, y) ==
    /\ InRange(x, lineGridWidth) /\ InRange(y, lineGridHeight)
    /\ IF opts.Style = "braille" THEN dotGrid[y + 1][x + 1]
       ELSE grid[y + 1][x + 1] = (IF lineShouldUseUnicode(opts, env) THEN lineDot ELSE asciiDot)

\* the points of the series just drawn are shown on the grid, and the rows of its points
\* and of the points of the series drawn before are ordered as their values are: a
\* larger value is never on a lower row, equal values are on the same row
rowsOrdered ==
    LET d == getAllSeries(opts)[seriesIdx].Data
        pts == linePoints[seriesIdx]
    IN /\ \A i \in 1..Len(d) : pointDrawnAt(pts[i][1], pts[i][2])
       /\ \A s \in 1..seriesIdx :
             \A j \in 1..Len(linePoints[s]), i \in 1..Len(d) :
                LET e == getAllSeries(opts)[s].Data
                IN /\ d[i].n > e[j].n => pts[i][2] <= linePoints[s][j][2]
                   /\ d[i].n = e[j].n => pts[i][2] = linePoints[s][j][2]

\* C20 as stated: point i (0-based) of the n points of a series is at column
\* round(i / (n - 1) * (width - 1)), width / 2 for n = 1, and at row
\* round((max - value) / (max - min) * (height - 1)) for the global min and max of all
\* series; the global maximum is on row 0 and the global minimum on the last row, a
\* larger value is never on a lower row and equal values are on the same row.
C20_PointsAtRoundedCells ==
    seriesDrawn =>
        LET d == getAllSeries(opts)[seriesIdx].Data
            n == Len(d)
            pts == linePoints[seriesIdx]
        IN /\ Len(pts) = n
           /\ \A i \in 1..n :
                 /\ pts[i][1] = IF n = 1 THEN lineGridWidth \div 2
                                ELSE RoundDiv((i - 1) * (lineGridWidth - 1), n - 1)
                 /\ lineMax > lineMin =>
                       pts[i][2] = RoundDiv((lineMax - d[i].n) * (lineGridHeight - 1),
                                            lineMax - lineMin)
                 /\ d[i].n = lineMax => pts[i][2] = 0
                 /\ d[i].n = lineMin => pts[i][2] = lineGridHeight - 1
           /\ rowsOrdered

\* what the code does: both quotients are truncated, not rounded, and when all values
\* are equal every point is on the last row
pointsTruncated ==
    seriesDrawn =>
        LET d == getAllSeries(opts)[seriesIdx].Data
            n == Len(d)
            pts == linePoints[seriesIdx]
        IN /\ Len(pts) = n
           /\ \A i \in 1..n :
                 /\ pts[i][1] = IF n = 1 THEN lineGridWidth \div 2
                                ELSE ((i - 1) * (lineGridWidth - 1)) \div (n - 1)
                 /\ lineMax > lineMin =>
                       /\ pts[i][2] = ((lineMax - d[i].n) * (lineGridHeight - 1))
                                          \div (lineMax - lineMin)
                       /\ d[i].n = lineMax => pts[i][2] = 0
                 /\ d[i].n = lineMin => pts[i][2] = lineGridHeight - 1
           /\ rowsOrdered

\* three points -1, 1, 2 on 10 x 3 cells: the value 1 is 2/3 of a row below the top
\* ((2 - 1) / 3 * 2) and is drawn on row 0, the row of the maximum, not on row 1
truncatedMiddlePoint ==
    /\ seriesDrawn /\ opts.Style = "ascii" /\ ~opts.ShowAxes
    /\ opts.Width = 10 /\ opts.Height = 3 /\ opts.Data = <<F(-1), F(1), F(2)>>
    /\ linePoints = <<<<<<0, 2>>, <<4, 0>>, <<9, 0>>>>>>
    /\ grid[1][5] = asciiDot /\ grid[2][5] # asciiDot /\ grid[2][6] # asciiDot

(***************************************************************************)
(* Claims on the segment walk (SpecSeg, SpecSegFair)                       *)
(***************************************************************************)
segDone == chart = "segment" /\ pc = "done"

MaxInt(a, b) == IF a > b THEN a ELSE b

\* the glyph or the dot at 0-based column x of row y
segCellSet(x, y) ==
    IF opts.Style = "braille" THEN dotGrid[y + 1][x + 1] ELSE grid[y + 1][x + 1] # SP

\* C21: the walk from (x1, y1) to (x2, y2) visits max(|x2 - x1|, |y2 - y1|) + 1 cells,
\* one for each coordinate of the dominant axis between the endpoints, a unit step apart
\* on that axis, from (x1, y1) to (x2, y2), no cell twice, and every visited cell holds
\* a glyph (a set dot in Braille mode) when the segment is drawn.
C21_WalkCoversDominantAxis ==
    segDone =>
        LET v == seg.visited
            n == MaxInt(AbsInt(seg.x2 - seg.x1), AbsInt(seg.y2 - seg.y1)) + 1
            dom == IF AbsInt(seg.x2 - seg.x1) >= AbsInt(seg.y2 - seg.y1) THEN 1 ELSE 2
            sgn == IF dom = 1 THEN seg.sx ELSE seg.sy
        IN /\ Len(v) = n
           /\ v[1] = <<seg.x1, seg.y1>>
           /\ v[n] = <<seg.x2, seg.y2>>
           /\ \A k \in 1..n : v[k][dom] = v[1][dom] + sgn * (k - 1)
           /\ \A k \in 1..n : \A j \in 1..n : v[k] = v[j] => k = j
           /\ \A k \in 1..n : segCellSet(v[k][1], v[k][2])
           /\ v = walk(seg.x1, seg.y1, seg.x2, seg.y2)

\* C21 witness: the walk from (0, 0) to (4, 2) has been at 5 cells, one in each column,
\* and has left a glyph in a cell of each of the 3 rows
C21_Witness ==
    /\ segDone /\ opts.Style = "ascii"
    /\ seg.x1 = 0 /\ seg.y1 = 0 /\ seg.x2 = 4 /\ seg.y2 = 2
    /\ Len(seg.visited) = 5
    /\ {seg.visited[k][2] : k \in 1..5} = {0, 1, 2}
    /\ \A k \in 1..5 : grid[seg.visited[k][2] + 1][seg.visited[k][1] + 1] # SP

MinInt(a, b) == IF a < b THEN a ELSE b

\* the walk is in its loop or has left it
segWalking == chart = "segment" /\ pc \in {"walk", "done"}

\* the current cell lies in the bounding box of the two endpoints
segInBox ==
    /\ MinInt(seg.x1, seg.x2) <= seg.x /\ seg.x <= MaxInt(seg.x1, seg.x2)
    /\ MinInt(seg.y1, seg.y2) <= seg.y /\ seg.y <= MaxInt(seg.y1, seg.y2)

\* the current cell lies inside the grid the segment is drawn on
segInGrid ==
    IF opts.Style = "braille"
    THEN InRange(seg.y, Len(dotGrid)) /\ InRange(seg.x, Len(dotGrid[1]))
    ELSE InRange(seg.y, Len(grid)) /\ InRange(seg.x, Len(grid[1]))

\* an iteration of either loop that does not break
segIteration == chart = "segment" /\ pc = "walk" /\ pc' = "walk"

\* C28: for two endpoints inside the grid the walk of drawLine and of drawBrailleLine
\* terminates: it reaches (x2, y2) and stays there; until then every iteration changes
\* the current cell, by at most 1 in each coordinate, and the current cell is always in
\* the bounding box of the two endpoints and inside the grid; no index is out of range.
C28_WalkTerminates ==
    /\ <>[](segDone /\ seg.x = seg.x2 /\ seg.y = seg.y2)
    /\ [][segIteration =>
             /\ <<seg.x', seg.y'>> # <<seg.x, seg.y>>
             /\ AbsInt(seg.x' - seg.x) <= 1
             /\ AbsInt(seg.y' - seg.y) <= 1]_vars
    /\ [](segWalking => segInBox /\ segInGrid)
    /\ [](pc # "panic")

\* C28 witness: the Braille walk from (4, 3) back to (0, 0) has stopped at (0, 0) after
\* 5 cells
C28_Witness ==
    /\ segDone /\ opts.Style = "braille"
    /\ seg.x1 = 4 /\ seg.y1 = 3 /\ seg.x2 = 0 /\ seg.y2 = 0
    /\ seg.x = 0 /\ seg.y = 0
    /\ Len(seg.visited) = 5
    /\ seg.visited[1] = <<4, 3>> /\ seg.visited[5] = <<0, 0>>

\* the four glyphs of a style by the direction (mx, my) of a move: columns grow to the
\* right, rows grow downwards
directionGlyph(mx, my, useUnicode) ==
    IF my = 0 THEN (IF useUnicode THEN lineHorizontal ELSE asciiHorizontal)
    ELSE IF mx = 0 THEN (IF useUnicode THEN lineVertical ELSE asciiVertical)
    ELSE IF (mx > 0) = (my > 0) THEN (IF useUnicode THEN lineDown ELSE asciiDown)
    ELSE (IF useUnicode THEN lineUp ELSE asciiUp)

\* a loop iteration of drawLine, of a segment of more than one cell, writes a glyph
glyphWritten ==
    /\ chart = "segment" /\ pc = "walk" /\ opts.Style # "braille"
    /\ <<seg.x1, seg.y1>> # <<seg.x2, seg.y2>>
    /\ grid' # grid

\* C22 as stated: the glyph written to a cell is the one of the local direction of the
\* walk at the cell, the move from the cell to the next one (at the last cell the move
\* that led to it): horizontal rule, vertical rule, or one of the two diagonals, of the
\* glyph set of the style.
C22_GlyphOfLocalDirection ==
    [][glyphWritten =>
          LET last == seg.visited[Len(seg.visited)]
              mx == IF pc' = "done" THEN seg.x - last[1] ELSE seg'.x - seg.x
              my == IF pc' = "done" THEN seg.y - last[2] ELSE seg'.y - seg.y
          IN grid'[seg.y + 1][seg.x + 1]
                = directionGlyph(mx, my, lineShouldUseUnicode(opts, env))]_vars

\* what the code does: every cell of a segment gets the glyph of the direction from
\* (x1, y1) to (x2, y2), whatever the move at the cell is
glyphOfSegmentDirection ==
    [][glyphWritten =>
          grid'[seg.y + 1][seg.x + 1]
             = directionGlyph(seg.x2 - seg.x1, seg.y2 - seg.y1,
                              lineShouldUseUnicode(opts, env))]_vars

\* the segment from (0, 0) to (4, 1) on a blank grid: the walk moves right along row 0
\* from column 0 to column 1, and both cells hold the diagonal glyph
diagonalOnLevelMove ==
    /\ segDone /\ opts.Style = "ascii"
    /\ seg.x1 = 0 /\ seg.y1 = 0 /\ seg.x2 = 4 /\ seg.y2 = 1
    /\ seg.visited[1] = <<0, 0>> /\ seg.visited[2] = <<1, 0>>
    /\ grid[1][1] = asciiDown /\ grid[1][2] = asciiDown
    /\ \A r \in 2..(MaxSegY + 1) : grid[r][1] = SP

(***************************************************************************)
(* Claims on the cells of the character grid (SpecLine)                    *)
(***************************************************************************)
\* a character-mode line chart is drawing its series or has drawn them
charGridDrawn == chart = "line" /\ pc \in {"draw", "done"} /\ opts.Style # "braille"

pointMarker == IF lineShouldUseUnicode(opts, env) THEN lineDot ELSE asciiDot

\* the color of series s (1-based): its own, else the color of the theme for its index
lineSeriesColor(s) ==
    LET sr == getAllSeries(opts)[s]
    IN IF sr.Color = "" THEN GetSeriesColor(DefaultTheme, s - 1) ELSE sr.Color

\* C23: in character mode the cell of every data point of every series drawn so far
\* holds the point marker: the marker has replaced what the cell held, and no segment
\* and no series drawn afterwards has replaced the marker by another glyph.
C23_MarkersStay ==
    charGridDrawn =>
        \A s \in 1..Len(linePoints) :
           \A i \in 1..Len(linePoints[s]) :
              grid[linePoints[s][i][2] + 1][linePoints[s][i][1] + 1] = pointMarker

\* C23 witness: the point of series A lies on the bottom row under the flat line of
\* series B drawn after it: the cell still holds the marker and the color of A, the
\* cells next to it the horizontal rule of B
C23_Witness ==
    /\ charGridDrawn /\ opts.Style = "ascii" /\ ~opts.ShowAxes
    /\ opts.Width = 10 /\ opts.Height = 3
    /\ opts.Series = <<MkSeries(<<65>>, Nums(<<1>>)), MkSeries(<<66>>, Nums(<<1, 1>>))>>
    /\ seriesIdx = 2
    /\ linePoints = <<<<<<5, 2>>>>, <<<<0, 2>>, <<9, 2>>>>>>
    /\ grid[3][6] = asciiDot /\ colors[3][6] = "red"
    /\ grid[3][5] = asciiHorizontal /\ grid[3][7] = asciiHorizontal /\ colors[3][7] = "blue"

\* <<s, i, cell>>: the walk of the segment from point i to point i + 1 of series s, one
\* of the series drawn so far, visits the cell
segmentCells ==
    UNION {UNION {LET p == linePoints[s][i]
                      q == linePoints[s][i + 1]
                      cells == walk(p[1], p[2], q[1], q[2])
                  IN {<<s, i, cells[k]>> : k \in 1..Len(cells)} :
                  i \in 1..(Len(linePoints[s]) - 1)} :
           s \in 1..Len(linePoints)}

\* <<s, cell>>: the cell is a data point of series s
markerCells ==
    UNION {{<<s, linePoints[s][i]>> : i \in 1..Len(linePoints[s])} : s \in 1..Len(linePoints)}

horizontalRules == {lineHorizontal, asciiHorizontal}

\* <<glyph, series>> of a cell after the segments i.. of series s have passed: a segment
\* leaves its glyph in a cell it visits that is blank or holds a horizontal rule
RECURSIVE afterSegments(_, _, _, _, _, _)
afterSegments(shown, s, i, at, sc, mc) ==
    IF i > Len(linePoints[s]) - 1 THEN shown
    ELSE LET p == linePoints[s][i]
             q == linePoints[s][i + 1]
             glyph == directionGlyph(q[1] - p[1], q[2] - p[2], lineShouldUseUnicode(opts, env))
         IN afterSegments(IF <<s, i, at>> \in sc /\ shown[1] \in {SP} \cup horizontalRules
                          THEN <<glyph, s>> ELSE shown,
                          s, i + 1, at, sc, mc)

\* <<glyph, series>> of a cell after the series 1..s: the series that wrote the glyph
\* the cell shows, 0 for a blank cell; the markers of a series come after its segments
RECURSIVE shownAfter(_, _, _, _)
shownAfter(s, at, sc, mc) ==
    IF s = 0 THEN <<SP, 0>>
    ELSE IF <<s, at>> \in mc THEN <<pointMarker, s>>
    ELSE afterSegments(shownAfter(s - 1, at, sc, mc), s, 1, at, sc, mc)

\* the glyphs and the color tags of the grid are those of the series that wrote them
tagsOfWriters ==
    charGridDrawn =>
        LET sc == segmentCells
            mc == markerCells
        IN \A r \in 1..Len(grid) : \A c \in 1..Len(grid[1]) :
              LET shown == shownAfter(Len(linePoints), <<c - 1, r - 1>>, sc, mc)
              IN /\ (colors[r][c] # "") <=> (grid[r][c] # SP)
                 /\ grid[r][c] = shown[1]
                 /\ colors[r][c] = IF shown[2] = 0 THEN "" ELSE lineSeriesColor(shown[2])

\* a cell that holds a vertical, diagonal or marker glyph keeps its glyph and its tag
\* in the draw of a series, unless a data point of the series falls on it
segmentsSpareGlyphs ==
    (charGridDrawn /\ pc = "draw" /\ Len(grid') = Len(grid)) =>
        \A r \in 1..Len(grid) : \A c \in 1..Len(grid[1]) :
           (grid[r][c] \notin {SP} \cup horizontalRules) =>
              \/ grid'[r][c] = grid[r][c] /\ colors'[r][c] = colors[r][c]
              \/ /\ grid'[r][c] = pointMarker
                 /\ Len(linePoints') = Len(linePoints) + 1
                 /\ \E i \in 1..Len(linePoints'[Len(linePoints')]) :
                       linePoints'[Len(linePoints')][i] = <<c - 1, r - 1>>

\* C30: in the character-mode grid, after any number of series draws, a cell has a
\* color tag iff it is not blank, and the tag is the color of the series that wrote the
\* glyph the cell shows; the segment glyph of a later draw replaces only a blank cell or
\* a horizontal rule, never a vertical, diagonal or marker glyph written before.
C30_TagsFollowGlyphs == [](tagsOfWriters) /\ [][segmentsSpareGlyphs]_vars

\* C30 witness: the rising line of series A and the falling line of series B, drawn
\* after it, cross in the middle row: the four cells both walks visit keep the glyph
\* and the color of A, the cells of B in the other rows have the color of B, and the
\* cells no walk visits are blank and have no tag
C30_Witness ==
    /\ charGridDrawn /\ opts.Style = "ascii" /\ ~opts.ShowAxes
    /\ opts.Width = 10 /\ opts.Height = 3
    /\ opts.Series = <<MkSeries(<<65>>, Nums(<<0, 1>>)), MkSeries(<<66>>, Nums(<<1, 0>>))>>
    /\ seriesIdx = 2
    /\ \A c \in 4..7 : /\ <<1, 1, <<c - 1, 1>>>> \in segmentCells
                       /\ <<2, 1, <<c - 1, 1>>>> \in segmentCells
                       /\ grid[2][c] = asciiUp /\ colors[2][c] = "red"
    /\ grid[1][2] = asciiDown /\ colors[1][2] = "blue"
    /\ grid[1][1] = asciiDot /\ colors[1][1] = "blue"
    /\ grid[2][1] = SP /\ colors[2][1] = ""

(***************************************************************************)
(* Claims on the Braille raster (SpecLine)                                 *)
(***************************************************************************)
\* a finished Braille chart without axes and title: its first lines are the cell rows
brailleCellsDone ==
    /\ lineDone /\ opts.Style = "braille" /\ ~opts.ShowAxes /\ opts.Title = << >>

\* the mask of sub-dot (r, c), r = 0..3 and c = 0..1, as the claim lists them
dotMask(r, c) == IF c = 0 THEN <<1, 2, 4, 64>>[r + 1] ELSE <<8, 16, 32, 128>>[r + 1]

\* bit `mask` (a power of two) of n is set
bitSet(n, mask) == (n \div mask) % 2 = 1

\* C24: the code point of character cell (row, col) of the output is 0x2800 plus the
\* masks of its set dots, sub-dot (r, c) being dot (4 * row + r, 2 * col + c): the masks
\* are 8 distinct single bits, decoding a code point gives exactly the set dots of the
\* cell, a cell without dots is U+2800, and the cells cover every dot of the dot grid
\* once.
C24_BraillePacking ==
    /\ Cardinality({dotMask(r, c) : r \in 0..3, c \in 0..1}) = 8
    /\ {dotMask(r, c) : r \in 0..3, c \in 0..1} \subseteq {1, 2, 4, 8, 16, 32, 64, 128}
    /\ brailleCellsDone =>
          LET h == lineChartHeight(opts)
              w == lineChartWidth(opts)
              ls == plainLines(result)
          IN /\ Len(dotGrid) = 4 * h
             /\ Len(dotGrid[1]) = 2 * w
             /\ Len(ls) >= h
             /\ \A row \in 0..(h - 1) :
                   /\ Len(ls[row + 1]) = w
                   /\ \A col \in 0..(w - 1) :
                         LET code == ls[row + 1][col + 1]
                         IN /\ code \in brailleBase..(brailleBase + 255)
                            /\ \A r \in 0..3, c \in 0..1 :
                                  bitSet(code - brailleBase, dotMask(r, c))
                                     <=> dotGrid[4 * row + r + 1][2 * col + c + 1]

\* C24 witness: a flat line on 10 x 3 cells sets the bottom dot row: the cells of the
\* last line are U+28C0 (dots 7 and 8), those of the first line U+2800
C24_Witness ==
    /\ brailleCellsDone /\ opts.Width = 10 /\ opts.Height = 3
    /\ opts.Data = Nums(<<5, 5, 5, 5>>)
    /\ \A col \in 1..10 : /\ plainLines(result)[3][col] = brailleBase + 64 + 128
                          /\ plainLines(result)[1][col] = brailleBase
    /\ \A c \in 1..20 : dotGrid[12][c] /\ ~dotGrid[11][c]

\* a Braille line chart is drawing its series or has drawn them
dotGridDrawn == chart = "line" /\ pc \in {"draw", "done"} /\ opts.Style = "braille"

\* the dots <<x, y>> a series with the points pts sets: its point, or the dots of the
\* walks between its consecutive points
seriesDots(pts) ==
    IF Len(pts) = 1 THEN {pts[1]}
    ELSE UNION {LET cells == walk(pts[i][1], pts[i][2], pts[i + 1][1], pts[i + 1][2])
                IN {cells[k] : k \in 1..Len(cells)} : i \in 1..(Len(pts) - 1)}

\* C25: in Braille mode a dot is set iff one of the series drawn so far set it (dots are
\* only added), a character cell in which no series set a dot has no color, and the
\* color of any other cell is the color of the last of the series that set one of its
\* 8 dots, whether the dot was set before or not.
C25_BrailleCellColor ==
    dotGridDrawn =>
        LET drawn == 1..Len(linePoints)
            \* <<dot, s>>: series s set the dot
            setBy == UNION {{<<d, s>> : d \in seriesDots(linePoints[s])} : s \in drawn}
            dotsSet == {q[1] : q \in setBy}
            \* <<<<col, row>>, s>>: series s set a dot of the cell
            cellSetBy == {<<<<q[1][1] \div 2, q[1][2] \div 4>>, q[2]>> : q \in setBy}
            setters(row, col) == {s \in drawn : <<<<col, row>>, s>> \in cellSetBy}
        IN /\ \A y \in 0..(Len(dotGrid) - 1), x \in 0..(Len(dotGrid[1]) - 1) :
                 dotGrid[y + 1][x + 1] <=> <<x, y>> \in dotsSet
           /\ \A row \in 0..(Len(colorGrid) - 1), col \in 0..(Len(colorGrid[1]) - 1) :
                 colorGrid[row + 1][col + 1]
                    = IF setters(row, col) = {} THEN ""
                      ELSE lineSeriesColor(SetMax(setters(row, col)))

\* C25 witness: series A is flat on the bottom dot row, series B runs along it up to
\* the middle and then rises: the bottom left cell, whose dots A had set, has the color
\* of B, the bottom right cell keeps the color of A, the top left cell has no color
C25_Witness ==
    /\ dotGridDrawn /\ opts.Width = 10 /\ opts.Height = 3 /\ ~opts.ShowAxes
    /\ opts.Series = <<MkSeries(<<65>>, Nums(<<0, 0>>)), MkSeries(<<66>>, Nums(<<0, 0, 1>>))>>
    /\ seriesIdx = 2
    /\ dotGrid[12][1] /\ dotGrid[12][20]
    /\ colorGrid[3][1] = "blue" /\ colorGrid[3][10] = "red" /\ colorGrid[1][1] = ""

(***************************************************************************)
(* Claims on the segments of stacked bars (SpecMulti)                      *)
(***************************************************************************)
\* a finished stacked chart with color, where the color of a glyph tells its series
stackedColorDone == stackedDone /\ result # << >> /\ isColorEnabled(opts, env)

\* E: the extent of the bar area of a stacked chart
stackedExtent ==
    IF opts.Direction = "horizontal" THEN multiBarWidth(opts) ELSE multiBarHeight(opts)

\* the series (1-based) whose color a <<rune, color sequence>> cell carries, 0 for a
\* cell that is not a bar glyph
cellSeries(cell) ==
    IF cell[1] # barGlyph THEN 0
    ELSE CHOOSE i \in 1..Len(opts.Series) : colorMap[seriesColor(opts, i)] = cell[2]

\* the series that fills position p (1 is next to the base line) of category cat, read
\* off the output; 0 when the position is empty
stackedCell(cat, p) ==
    IF opts.Direction = "vertical"
    THEN cellSeries(stackedColumn(cat)[multiBarHeight(opts) - p + 1])
    ELSE LET row == coloredRunes(Lines(result)[titleRows + cat])
             at == p + (IF opts.ShowAxes THEN maxLabelWidthOf(opts) + 1 ELSE 0)
         IN IF at <= Len(row) THEN cellSeries(row[at]) ELSE 0

\* B(i): the boundary of the running sum of the first i series of category cat
stackedBoundary(cat, i) ==
    Floor(stackedExtent * cumulativeValue(opts, cat, i), multiMaxVal(opts))

\* C26 as stated: in a stacked chart, horizontal or vertical, position p of a category
\* is filled by series i iff B(i-1) < p <= B(i), B(i) the boundary of the running sum
\* of the series up to i: every filled cell belongs to one series, the segments follow
\* each other in series order and the category is filled up to B(last series).
C26_SegmentsAtCumulativeBoundaries ==
    stackedColorDone =>
        \A cat \in 1..numCategoriesOf(opts.Series) :
           \A p \in 1..stackedExtent :
              LET owners == {i \in 1..Len(opts.Series) :
                               stackedBoundary(cat, i - 1) < p /\ p <= stackedBoundary(cat, i)}
              IN IF owners = {} THEN stackedCell(cat, p) = 0
                 ELSE owners = {stackedCell(cat, p)}

\* what the code does in a horizontal chart: the segment of a series is as long as its
\* own value makes it, E * v / max truncated and not below 0, and the segments follow
\* each other from the base line
horizontalSegmentsPerSeries ==
    (stackedColorDone /\ opts.Direction = "horizontal") =>
        \A cat \in 1..numCategoriesOf(opts.Series) :
           LET len(i) == MaxInt(0, Trunc(stackedExtent * valueAt(opts.Series[i], cat),
                                        multiMaxVal(opts)))
               end(i) == SumSeq([k \in 1..i |-> len(k)])
           IN \A p \in 1..stackedExtent :
                 LET owners == {i \in 1..Len(opts.Series) : end(i - 1) < p /\ p <= end(i)}
                 IN IF owners = {} THEN stackedCell(cat, p) = 0
                    ELSE owners = {stackedCell(cat, p)}

\* the claim restricted to vertical charts without negative values
verticalSegmentsAtBoundaries ==
    (/\ stackedColorDone /\ opts.Direction = "vertical"
     /\ \A i \in 1..Len(opts.Series) : \A j \in 1..Len(opts.Series[i].Data) :
           opts.Series[i].Data[j].n >= 0)
        => \A cat \in 1..numCategoriesOf(opts.Series) :
              \A p \in 1..stackedExtent :
                 LET owners == {i \in 1..Len(opts.Series) :
                                  stackedBoundary(cat, i - 1) < p
                                     /\ p <= stackedBoundary(cat, i)}
                 IN IF owners = {} THEN stackedCell(cat, p) = 0
                    ELSE owners = {stackedCell(cat, p)}

\* A = [10, 20, 30] and B = [5, 10, 15] on 10 columns: the row of the third category,
\* whose sum 45 is the maximum, has 6 cells of A and 3 of B, and its 10th cell is empty
fullCategoryShort ==
    /\ stackedColorDone /\ opts.Direction = "horizontal" /\ ~opts.ShowAxes
    /\ opts.Series = <<MkSeries(<<65>>, Nums(<<10, 20, 30>>)),
                       MkSeries(<<66>>, Nums(<<5, 10, 15>>))>>
    /\ stackedExtent = 10
    /\ [p \in 1..10 |-> stackedCell(3, p)] = <<1, 1, 1, 1, 1, 1, 2, 2, 2, 0>>
    /\ stackedBoundary(3, 1) = 6 /\ stackedBoundary(3, 2) = 10

\* the number of bar glyphs in the row of category cat of a horizontal chart
stackedRun(cat) ==
    LET row == coloredRunes(Lines(result)[titleRows + cat])
    IN Cardinality({k \in 1..Len(row) : row[k][1] = barGlyph})

horizontalStackedDone == stackedDone /\ result # << >> /\ opts.Direction = "horizontal"

\* C29 as stated: in a horizontal stacked chart the glyph run of a category row, the
\* segments of all series together, is never longer than the bar width of the chart.
C29_StackedRunWithinBarWidth ==
    horizontalStackedDone =>
        \A cat \in 1..numCategoriesOf(opts.Series) : stackedRun(cat) <= multiBarWidth(opts)

\* what the code keeps: the segment of each series is cut at the bar width, so a row
\* is at most as long as the bar width times the number of series; with no negative
\* value in the category the row stays within the bar width
stackedRunPerSeriesCap ==
    horizontalStackedDone =>
        \A cat \in 1..numCategoriesOf(opts.Series) :
           /\ stackedRun(cat) <= Len(opts.Series) * multiBarWidth(opts)
           /\ (\A i \in 1..Len(opts.Series) : valueAt(opts.Series[i], cat) >= 0)
                 => stackedRun(cat) <= multiBarWidth(opts)

\* A = [2], B = [-1], C = [1] on 10 columns: the maximum sum is 2, A fills the 10
\* columns, B none, and C adds 5 more
stackedRowOverflows ==
    /\ horizontalStackedDone /\ ~opts.ShowAxes /\ multiBarWidth(opts) = 10
    /\ opts.Series = <<MkSeries(<<65>>, Nums(<<2>>)), MkSeries(<<66>>, Nums(<<-1>>)),
                       MkSeries(<<67>>, Nums(<<1>>))>>
    /\ multiMaxVal(opts) = 2
    /\ stackedRun(1) = 15

(***************************************************************************)
(* Claims on the sectors of a pie (SpecPie)                                *)
(***************************************************************************)
pieDrawn == pieDone /\ result # << >>

\* the <<rune, color sequence>> at column x, row y of the pie, (0, 0) being the center
pieCell(x, y) ==
    LET skip == IF opts.Title # << >> THEN 2 ELSE 0
    IN coloredRunes(Lines(result)[skip + y + pieRadius + 1])[x + pieHalfWidth + 1]

\* what a cell of slice i (1-based) shows: the pie character in the color of the slice,
\* or without color the legend character of the slice
pieSwatch(i) ==
    IF isColorEnabled(opts, env)
    THEN <<pieChar, colorMap[DefaultTheme.Series[((i - 1) % 6) + 1]]>>
    ELSE <<(IF shouldUseUnicode(opts, env) THEN legendChars
            ELSE legendCharsASCII)[((i - 1) % 10) + 1], << >>>>

\* the angle of a cell from 12 o'clock, clockwise, in millionths of a full turn,
\* 0 <= turn < 1000000
pieTurn(x, y) == (pieAngle(x, y) + 250000) % 1000000

\* the slices (1-based) whose range [start, end) holds the angle of the cell: start is
\* the share of the slices before it, end - start its own share of the positive total
slicesAt(x, y) ==
    {i \in 1..Len(opts.Data) :
        /\ 1000000 * positiveSum(opts.Data, i - 1) <= pieTurn(x, y) * positiveTotal
        /\ pieTurn(x, y) * positiveTotal < 1000000 * positiveSum(opts.Data, i)}

\* C27: slice i spans [start_i, end_i), start_1 at 12 o'clock, end_i = start_i + its
\* share of a full turn clockwise, start_(i+1) = end_i; every cell inside the circle
\* shows the one slice whose range holds the angle of the cell, ranges that pass the
\* -180/180 degree boundary included, a cell outside the circle is blank, and a slice
\* of percentage 0 owns no cell.
C27_PieSectorOwnership ==
    pieDrawn =>
        LET skip == IF opts.Title # << >> THEN 2 ELSE 0
            lines == Lines(result)
        IN \A y \in (-pieRadius)..pieRadius :
              LET row == coloredRunes(lines[skip + y + pieRadius + 1])
              IN \A x \in (-pieHalfWidth)..pieHalfWidth :
                    IF insideCircle(x, y)
                    THEN /\ Cardinality(slicesAt(x, y)) = 1
                         /\ \A i \in slicesAt(x, y) :
                               /\ opts.Data[i].n > 0
                               /\ row[x + pieHalfWidth + 1] = pieSwatch(i)
                    ELSE row[x + pieHalfWidth + 1][1] = SP

\* C27 witness: the data 2, 0, 1, 1 without color: the second slice owns no cell, the
\* cell left of the center, at -180/180 degrees, is the first cell of the fourth slice,
\* the cell above it on the left belongs to the fourth slice and the cell below to the
\* third, the cell right of the center to the first
C27_Witness ==
    /\ pieDrawn /\ ~isColorEnabled(opts, env) /\ opts.Style = "ascii"
    /\ opts.Data = Nums(<<2, 0, 1, 1>>)
    /\ pieCell(-4, 0) = pieSwatch(4) /\ pieCell(-4, -1) = pieSwatch(4)
    /\ pieCell(-4, 1) = pieSwatch(3) /\ pieCell(4, 0) = pieSwatch(1)
    /\ \A y \in (-pieRadius)..pieRadius, x \in (-pieHalfWidth)..pieHalfWidth :
          pieCell(x, y) # pieSwatch(2)

====
